---- MODULE Spec2Model ----
(***************************************************************************)
(* Model of the hierarchical provision graph builder of crss_mvp_new:      *)
(*   - the stack machines parse_eu_ai_act / parse_mdr and the helpers of   *)
(*     base/parser_core.py and base/parser_utils.py they call,             *)
(*   - the requirement classifier, the role detector and enrich_semantics, *)
(*   - ParserContext (ingestion/parse/utils.py).                           *)
(*                                                                         *)
(* Representation.  A text is the sequence of its whitespace-separated     *)
(* tokens (normalize_text collapses whitespace, so the token sequence is   *)
(* the normalized text).  A regular expression of the source is modelled   *)
(* by what it accepts on token sequences; the lexical classes (\d+,        *)
(* [IVXLCDM]+, ...) are the sets of tokens of the vocabulary they accept.  *)
(* A string built by joining parts with "_" (ids, path segments, reference *)
(* targets) is the sequence of its parts.  Python's None is the empty      *)
(* sequence for ids/texts and the string "None" for levels and markers.    *)
(***************************************************************************)
EXTENDS Integers, Sequences, FiniteSets, TLC

VARIABLES
    component,        \* which part of the program this behaviour exercises
    parser,           \* "eu_ai" (parse_eu_ai_act) or "mdr" (parse_mdr)
    lang,             \* language argument, upper-cased
    provisions,       \* provisions: List[Dict]
    relations,        \* relations: List[Tuple[str, str, str]]
    stack,            \* stack: List[Dict], as indices into provisions (same objects)
    recital_counter,  \* recital_counter (parse_eu_ai_act only)
    in_preamble,      \* in_preamble (parse_eu_ai_act only)
    input,            \* the blocks consumed so far, in document order
    ctx,              \* ParserContext: provisions, relations, nodes
    sem,              \* the call of the semantic functions: inputs, position, results
    conc,             \* two interleaved invocations and the global ROLE_DETECTOR
    pipe,             \* a call of parse_document or run: position, effects, result
    refs,             \* a call of extract_references: input, position, result
    call              \* a call of a helper or of parse_eurlex_html: argument, position, result

vars == <<component, parser, lang, provisions, relations, stack, recital_counter,
          in_preamble, input, ctx, sem, conc, pipe, refs, call>>

stackVars == <<parser, lang, provisions, relations, stack, recital_counter,
               in_preamble, input>>

auxVars == <<conc, pipe, refs, call>>

None == "None"

\* ------------------------------------------------------------------------
\* Bounds
\* ------------------------------------------------------------------------
MaxBlocks == 4
MaxTextLen == 3
MaxNodes == 4
MaxConcBlocks == 2

\* ------------------------------------------------------------------------
\* Lexical layer
\* ------------------------------------------------------------------------
\* re.I: case folding of the tokens of the vocabulary that are not lower case
Fold(t) ==
    CASE t = "Article" -> "article"
      [] t = "ARTICLE" -> "article"
      [] t = "Artikel" -> "artikel"
      [] t = "CHAPTER" -> "chapter"
      [] t = "KAPITEL" -> "kapitel"
      [] t = "CHAPITRE" -> "chapitre"
      [] t = "SECTION" -> "section"
      [] t = "ABSCHNITT" -> "abschnitt"
      [] t = "ANNEX" -> "annex"
      [] t = "ANHANG" -> "anhang"
      [] t = "Whereas" -> "whereas"
      [] t = "The" -> "the"
      [] t = "I" -> "i"
      [] t = "II" -> "ii"
      [] t = "IV" -> "iv"
      [] t = "(A)" -> "(a)"
      [] t = "(I)" -> "(i)"
      [] OTHER -> t

\* \d+ as a whole token
DigitTokens == {"1", "2", "5"}
\* tokens beginning with \d+ (a regex kw\s+\d+ does not anchor the end)
DigitPrefixTokens == DigitTokens \cup {"5a"}
\* the leading \d+ of a token of DigitPrefixTokens
LeadingDigits(t) == IF t = "5a" THEN "5" ELSE t
\* tokens in which \b(\d+)\b finds a number, and the first number it finds
BareNumberTokens == DigitTokens \cup {"1.", "2.", "1.1", "1.1.1", "(1)", "(2)"}
FirstNumberIn(t) ==
    CASE t \in {"1.", "1.1", "1.1.1", "(1)"} -> "1"
      [] t \in {"2.", "(2)"} -> "2"
      [] OTHER -> t
\* [IVXLCDM]+ followed by \b, under re.I (folded)
RomanTokens == {"i", "ii", "iv"}

\* the numbering prefixes of detect_numbering, folded, with the group they capture
Dotted3Tokens == {"1.1.1"}
Dotted2Tokens == {"1.1"}
NumDotTokens == {"1.", "2."}
ParenNumTokens == {"(1)", "(2)"}
ParenLetterTokens == {"(a)", "(b)", "(i)", "(v)"}
ParenRomanTokens == {"(i)", "(ii)", "(iv)", "(v)"}

Group1(t) ==
    CASE t = "1." -> "1"
      [] t = "2." -> "2"
      [] t = "(1)" -> "1"
      [] t = "(2)" -> "2"
      [] t = "(a)" -> "a"
      [] t = "(A)" -> "A"
      [] t = "(b)" -> "b"
      [] t = "(i)" -> "i"
      [] t = "(I)" -> "I"
      [] t = "(v)" -> "v"
      [] t = "(ii)" -> "ii"
      [] t = "(iv)" -> "iv"
      [] OTHER -> t

\* str.isdigit() on a marker
IsDigit(m) == m \in DigitTokens

\* int(marker) for a marker of digits
ToInt(m) ==
    CASE m = "1" -> 1
      [] m = "2" -> 2
      [] m = "5" -> 5
      [] OTHER -> 0

\* f"PREAMBLE_{recital_counter}"
PreambleMarker(n) ==
    CASE n = 1 -> "PREAMBLE_1"
      [] n = 2 -> "PREAMBLE_2"
      [] n = 3 -> "PREAMBLE_3"
      [] n = 4 -> "PREAMBLE_4"
      [] n = 5 -> "PREAMBLE_5"
      [] n = 6 -> "PREAMBLE_6"
      [] n = 7 -> "PREAMBLE_7"
      [] n = 8 -> "PREAMBLE_8"
      [] n = 9 -> "PREAMBLE_9"
      [] n = 10 -> "PREAMBLE_10"
      [] n = 11 -> "PREAMBLE_11"
      [] OTHER -> "PREAMBLE_12"

\* str.upper()
Upper(s) ==
    CASE s = "title" -> "TITLE"
      [] s = "recital" -> "RECITAL"
      [] s = "chapter" -> "CHAPTER"
      [] s = "section" -> "SECTION"
      [] s = "article" -> "ARTICLE"
      [] s = "paragraph" -> "PARAGRAPH"
      [] s = "letter" -> "LETTER"
      [] s = "subpoint" -> "SUBPOINT"
      [] s = "annex" -> "ANNEX"
      [] s = "a" -> "A"
      [] s = "b" -> "B"
      [] s = "i" -> "I"
      [] s = "ii" -> "II"
      [] s = "iv" -> "IV"
      [] s = "v" -> "V"
      [] s = "5a" -> "5A"
      [] OTHER -> s

\* s[i..] for a sequence
Tail2(s, i) == SubSeq(s, i, Len(s))

\* re.search of a phrase: pat is a sequence of sets of folded tokens
Matches(pat, text) ==
    \E i \in 1..(Len(text) - Len(pat) + 1) :
        \A j \in 1..Len(pat) : Fold(text[i + j - 1]) \in pat[j]

\* ------------------------------------------------------------------------
\* Requirement classifier (base/requirement_patterns.py)
\* ------------------------------------------------------------------------
\* patterns of one, two and three words (\b...\b around whole words)
P1(a) == <<{a}>>
P2(a, b) == <<{a}, {b}>>
P3(a, b, c) == <<{a}, {b}, {c}>>

\* '[^']+' and "[^"]+" : a quoted term, one token of the vocabulary
SingleQuoted == {"'term'"}
DoubleQuoted == {"\"term\""}

REQ_PATTERNS_EN ==
    [obligation  |-> <<P1("shall"), P1("must"), P3("is", "required", "to"),
                       P3("is", "obliged", "to"), P2("has", "to"), P2("shall", "ensure")>>,
     prohibition |-> <<P2("shall", "not"), P2("may", "not"), P2("must", "not"),
                       P2("is", "prohibited"), P3("shall", "refrain", "from")>>,
     permission  |-> <<P1("may"), P2("is", "permitted"), P3("is", "allowed", "to")>>,
     definition  |-> << <<SingleQuoted, {"means"}>>, <<DoubleQuoted, {"means"}>>,
                       P2("refers", "to"), P1("denotes")>>]

REQ_PATTERNS_DE ==
    [obligation  |-> <<P1("muss"), P1("verpflichtet"), P2("hat", "sicherzustellen"),
                       P2("ist", "verpflichtet")>>,
     prohibition |-> <<P2("darf", "nicht"), P2("ist", "untersagt"), P1("verboten")>>,
     permission  |-> <<P1("darf"), P2("ist", "erlaubt")>>,
     definition  |-> << <<SingleQuoted, {"bezeichnet"}>>, <<DoubleQuoted, {"bezeichnet"}>>,
                       P1("bezeichnet"), P2("steht", "fuer")>>]

REQ_PATTERNS_FR ==
    [obligation  |-> <<P1("doit"), P3("est", "tenu", "de"), P3("est", "oblige", "de")>>,
     prohibition |-> <<P3("ne", "doit", "pas"), P2("est", "interdit")>>,
     permission  |-> <<P1("peut"), P3("est", "autorise", "a")>>,
     definition  |-> << <<SingleQuoted, {"signifie"}>>, <<DoubleQuoted, {"signifie"}>>,
                       P1("signifie"), P1("designe")>>]

\* REQ_PATTERNS.get(lang, REQ_PATTERNS["EN"])
REQ_PATTERNS(l) ==
    CASE l = "DE" -> REQ_PATTERNS_DE
      [] l = "FR" -> REQ_PATTERNS_FR
      [] OTHER -> REQ_PATTERNS_EN

\* some pattern of the list matches
AnyMatch(plist, text) == \E k \in 1..Len(plist) : Matches(plist[k], text)

\* mutant: only the obligation patterns are tried
is_requirement_text_ObligationOnly(text, l) == AnyMatch(REQ_PATTERNS(l).obligation, text)

is_requirement_text(text, l) ==
    LET patterns == REQ_PATTERNS(l)
    IN  \E c \in DOMAIN patterns : AnyMatch(patterns[c], text)

\* mutant: obligation patterns tried before prohibition patterns
CategoryOrder_ObligationFirst == <<"obligation", "prohibition", "permission", "definition">>

\* the order in which classify_requirement_type flattens the categories
CategoryOrder == <<"prohibition", "obligation", "permission", "definition">>

\* flat_patterns: (req_type, pattern) pairs, categories in the given order
RECURSIVE Flatten(_, _, _)
Flatten(patterns, order, k) ==
    IF k > Len(order) THEN <<>>
    ELSE [j \in 1..Len(patterns[order[k]]) |->
              [req_type |-> order[k], pat |-> patterns[order[k]][j]]]
         \o Flatten(patterns, order, k + 1)

\* the loop over flat_patterns: the first pair that matches decides
RECURSIVE FirstMatch(_, _, _)
FirstMatch(flat, text, k) ==
    IF k > Len(flat) THEN "other"
    ELSE IF Matches(flat[k].pat, text) THEN flat[k].req_type
    ELSE FirstMatch(flat, text, k + 1)

ClassifyInOrder(text, l, order) == FirstMatch(Flatten(REQ_PATTERNS(l), order, 1), text, 1)

classify_requirement_type(text, l) == ClassifyInOrder(text, l, CategoryOrder)

\* ------------------------------------------------------------------------
\* Role detector (domain/ontology/actor_roles.py)
\* ------------------------------------------------------------------------
\* The vocabularies, in declaration order (dicts keep insertion order); a
\* keyword is the sequence of its words, lower case, accents dropped.
EU_AI_ROLE_KEYWORDS_EN ==
    <<
     [role |-> "provider",
      kws |-> << <<"provider">>, <<"supplier">>, <<"manufacturer">>, <<"developer">>,
                 <<"downstream", "provider">> >>],
     [role |-> "deployer",
      kws |-> << <<"deployer">>, <<"operator">>, <<"user", "in", "own", "authority">>,
                 <<"integrator">> >>],
     [role |-> "authorised_representative",
      kws |-> << <<"authorised", "representative">> >>],
     [role |-> "importer",
      kws |-> << <<"importer">> >>],
     [role |-> "distributor",
      kws |-> << <<"distributor">>, <<"reseller">> >>],
     [role |-> "operator",
      kws |-> << <<"operator">>, <<"actor">>, <<"provider">>, <<"manufacturer">>, <<"deployer">>,
                 <<"authorised", "representative">>, <<"importer">>, <<"distributor">> >>],
     [role |-> "notified_body",
      kws |-> << <<"notified", "body">>, <<"conformity", "assessment", "body">> >>],
     [role |-> "regulator",
      kws |-> << <<"ai", "office">>, <<"national", "competent", "authority">>,
                 <<"market", "surveillance", "authority">>, <<"notifying", "authority">>,
                 <<"law", "enforcement", "authority">> >>],
     [role |-> "sponsor",
      kws |-> << <<"sponsor">>, <<"clinical", "sponsor">> >>]
    >>

EU_AI_ROLE_KEYWORDS_FR ==
    <<
     [role |-> "provider",
      kws |-> << <<"fournisseur">>, <<"fabricant">>, <<"prestataire">>,
                 <<"fournisseur", "en", "aval">> >>],
     [role |-> "deployer",
      kws |-> << <<"deployeur">>, <<"operateur">>, <<"utilisateur", "en", "propre">>,
                 <<"integrateur">> >>],
     [role |-> "authorised_representative",
      kws |-> << <<"mandataire">> >>],
     [role |-> "importer",
      kws |-> << <<"importateur">> >>],
     [role |-> "distributor",
      kws |-> << <<"distributeur">> >>],
     [role |-> "operator",
      kws |-> << <<"operateur">>, <<"acteur">>, <<"fournisseur">>, <<"fabricant">>,
                 <<"deployeur">>, <<"mandataire">>, <<"importateur">>, <<"distributeur">> >>],
     [role |-> "notified_body",
      kws |-> << <<"organisme", "notifie">>,
                 <<"organisme", "d'evaluation", "de", "la", "conformite">> >>],
     [role |-> "regulator",
      kws |-> << <<"bureau", "de", "l'ia">>, <<"autorite", "nationale", "competente">>,
                 <<"autorite", "de", "surveillance", "du", "marche">>,
                 <<"autorite", "notifiante">>, <<"autorites", "repressives">> >>],
     [role |-> "sponsor",
      kws |-> << <<"sponsor">>, <<"sponsor", "clinique">> >>]
    >>

EU_AI_ROLE_KEYWORDS_DE ==
    <<
     [role |-> "provider",
      kws |-> << <<"anbieter">>, <<"hersteller">>, <<"lieferant">>,
                 <<"nachgelagerter", "anbieter">> >>],
     [role |-> "deployer",
      kws |-> << <<"betreiber">>, <<"nutzer", "in", "eigener", "verantwortung">>,
                 <<"integrator">> >>],
     [role |-> "authorised_representative",
      kws |-> << <<"bevollmaechtigter">> >>],
     [role |-> "importer",
      kws |-> << <<"einfuehrer">> >>],
     [role |-> "distributor",
      kws |-> << <<"haendler">> >>],
     [role |-> "operator",
      kws |-> << <<"betreiber">>, <<"akteur">>, <<"anbieter">>, <<"hersteller">>,
                 <<"bevollmaechtigter">>, <<"einfuehrer">>, <<"haendler">> >>],
     [role |-> "notified_body",
      kws |-> << <<"notifizierte", "stelle">>, <<"konformitaetsbewertungsstelle">> >>],
     [role |-> "regulator",
      kws |-> << <<"buro", "fuer", "kuenstliche", "intelligenz">>,
                 <<"zustaendige", "nationale", "behoerde">>, <<"marktueberwachungsbehoerde">>,
                 <<"notifizierende", "behoerde">>, <<"strafverfolgungsbehoerde">> >>],
     [role |-> "sponsor",
      kws |-> << <<"sponsor">>, <<"klinischer", "sponsor">> >>]
    >>

MDR_ROLE_KEYWORDS_EN ==
    <<
     [role |-> "manufacturer",
      kws |-> << <<"manufacturer">>, <<"legal", "manufacturer">> >>],
     [role |-> "authorised_representative",
      kws |-> << <<"authorised", "representative">> >>],
     [role |-> "importer",
      kws |-> << <<"importer">> >>],
     [role |-> "distributor",
      kws |-> << <<"distributor">>, <<"economic", "operator">> >>],
     [role |-> "notified_body",
      kws |-> << <<"notified", "body">> >>],
     [role |-> "conformity_assessment_body",
      kws |-> << <<"conformity", "assessment", "body">> >>],
     [role |-> "sponsor",
      kws |-> << <<"sponsor">>, <<"clinical", "sponsor">> >>],
     [role |-> "investigator",
      kws |-> << <<"investigator">> >>],
     [role |-> "ethics_committee",
      kws |-> << <<"ethics", "committee">> >>],
     [role |-> "health_institution",
      kws |-> << <<"health", "institution">>, <<"hospital">> >>],
     [role |-> "user",
      kws |-> << <<"user">>, <<"professional", "user">>, <<"healthcare", "professional">> >>],
     [role |-> "lay_person",
      kws |-> << <<"lay", "person">>, <<"lay", "user">> >>],
     [role |-> "market_surveillance_authority",
      kws |-> << <<"market", "surveillance", "authority">> >>],
     [role |-> "competent_authority",
      kws |-> << <<"competent", "authority">> >>]
    >>

MDR_ROLE_KEYWORDS_FR ==
    <<
     [role |-> "manufacturer",
      kws |-> << <<"fabricant">> >>],
     [role |-> "authorised_representative",
      kws |-> << <<"mandataire">> >>],
     [role |-> "importer",
      kws |-> << <<"importateur">> >>],
     [role |-> "distributor",
      kws |-> << <<"distributeur">>, <<"operateur", "economique">> >>],
     [role |-> "notified_body",
      kws |-> << <<"organisme", "notifie">> >>],
     [role |-> "conformity_assessment_body",
      kws |-> << <<"organisme", "d'evaluation", "de", "la", "conformite">> >>],
     [role |-> "sponsor",
      kws |-> << <<"sponsor">>, <<"promoteur">> >>],
     [role |-> "investigator",
      kws |-> << <<"investigateur">> >>],
     [role |-> "ethics_committee",
      kws |-> << <<"comite", "d'ethique">> >>],
     [role |-> "health_institution",
      kws |-> << <<"etablissement", "de", "sante">> >>],
     [role |-> "user",
      kws |-> << <<"utilisateur">>, <<"professionnel", "de", "sante">> >>],
     [role |-> "lay_person",
      kws |-> << <<"profane">> >>],
     [role |-> "market_surveillance_authority",
      kws |-> << <<"autorite", "de", "surveillance", "du", "marche">> >>],
     [role |-> "competent_authority",
      kws |-> << <<"autorite", "competente">> >>]
    >>

MDR_ROLE_KEYWORDS_DE ==
    <<
     [role |-> "manufacturer",
      kws |-> << <<"hersteller">> >>],
     [role |-> "authorised_representative",
      kws |-> << <<"bevollmaechtigter">> >>],
     [role |-> "importer",
      kws |-> << <<"einfuehrer">> >>],
     [role |-> "distributor",
      kws |-> << <<"haendler">>, <<"wirtschaftsakteur">> >>],
     [role |-> "notified_body",
      kws |-> << <<"benannte", "stelle">> >>],
     [role |-> "conformity_assessment_body",
      kws |-> << <<"konformitaetsbewertungsstelle">> >>],
     [role |-> "sponsor",
      kws |-> << <<"sponsor">> >>],
     [role |-> "investigator",
      kws |-> << <<"pruefer">> >>],
     [role |-> "ethics_committee",
      kws |-> << <<"ethik-kommission">> >>],
     [role |-> "health_institution",
      kws |-> << <<"gesundheitseinrichtung">> >>],
     [role |-> "user",
      kws |-> << <<"anwender">>, <<"gesundheitsfachkraft">> >>],
     [role |-> "lay_person",
      kws |-> << <<"laie">> >>],
     [role |-> "market_surveillance_authority",
      kws |-> << <<"marktueberwachungsbehoerde">> >>],
     [role |-> "competent_authority",
      kws |-> << <<"zustaendige", "behoerde">> >>]
    >>

\* keyword_map.get(lang, keyword_map.get("EN", {}))
EU_AI_ROLE_KEYWORDS(l) ==
    CASE l = "FR" -> EU_AI_ROLE_KEYWORDS_FR
      [] l = "DE" -> EU_AI_ROLE_KEYWORDS_DE
      [] OTHER -> EU_AI_ROLE_KEYWORDS_EN

MDR_ROLE_KEYWORDS(l) ==
    CASE l = "FR" -> MDR_ROLE_KEYWORDS_FR
      [] l = "DE" -> MDR_ROLE_KEYWORDS_DE
      [] OTHER -> MDR_ROLE_KEYWORDS_EN

\* the tokens of the vocabulary that are a keyword word followed by the
\* optional suffix (?:['\u2019]s|\w+)? : plural and possessive forms
SuffixedForm(t) ==
    CASE t = "providers" -> "provider"
      [] t = "provider's" -> "provider"
      [] t = "deployers" -> "deployer"
      [] t = "operators" -> "operator"
      [] t = "manufacturers" -> "manufacturer"
      [] t = "users" -> "user"
      [] t = "anbieters" -> "anbieter"
      [] OTHER -> t

\* re.search(rf"\b{pat}{suffix_pattern}\b", text, re.I)
KeywordMatches(kw, text) ==
    \E i \in 1..(Len(text) - Len(kw) + 1) :
        /\ \A j \in 1..(Len(kw) - 1) : Fold(text[i + j - 1]) = kw[j]
        /\ SuffixedForm(Fold(text[i + Len(kw) - 1])) = kw[Len(kw)]

\* the loop over the roles; the inner loop breaks at the first matching keyword
RECURSIVE DetectFrom(_, _, _)
DetectFrom(patterns, text, k) ==
    IF k > Len(patterns) THEN <<>>
    ELSE (IF \E n \in 1..Len(patterns[k].kws) : KeywordMatches(patterns[k].kws[n], text)
          THEN <<patterns[k].role>> ELSE <<>>)
         \o DetectFrom(patterns, text, k + 1)

\* mutant: return at the first role found instead of breaking the inner loop
detect_roles_from_keywords_Return(text, patterns) ==
    LET detected == DetectFrom(patterns, text, 1)
    IN  IF detected = <<>> THEN <<>> ELSE <<detected[1]>>

\* mutant: the roles are returned in the order of their keywords in the text
RECURSIVE DetectInTextOrder(_, _, _)
DetectInTextOrder(patterns, text, i) ==
    IF i > Len(text) THEN <<>>
    ELSE LET rest == DetectInTextOrder(patterns, text, i + 1)
             here == SelectSeq(DetectFrom(patterns, <<text[i]>>, 1),
                               LAMBDA r : \A k \in 1..Len(rest) : rest[k] # r)
         IN  here \o rest

detect_roles_from_keywords_TextOrder(text, patterns) == DetectInTextOrder(patterns, text, 1)

detect_roles_from_keywords(text, patterns) == DetectFrom(patterns, text, 1)

eu_ai_role_detector(text, l) == detect_roles_from_keywords(text, EU_AI_ROLE_KEYWORDS(l))

mdr_role_detector(text, l) == detect_roles_from_keywords(text, MDR_ROLE_KEYWORDS(l))

\* ------------------------------------------------------------------------
\* Regulations catalog (domain/regulations_catalog.py)
\* ------------------------------------------------------------------------
CELEX_MDR == "32017R0745"
CELEX_AI == "32024R1689"

\* REGULATIONS.get(celex, {}).get("type")
RegulationType(celex) ==
    CASE celex = CELEX_MDR -> "medical_device_regulation"
      [] celex = CELEX_AI -> "ai_regulation"
      [] OTHER -> None

\* ------------------------------------------------------------------------
\* Semantic enrichment (canonicalization/semantics.py)
\* ------------------------------------------------------------------------
\* obligation_patterns, the legacy cues
LegacyObligationPatterns ==
    <<P1("shall"), P1("must"), P3("are", "required", "to"), P3("is", "required", "to"),
      P2("responsible", "for"), P1("ensure"), P1("prohibited"), P2("not", "permitted")>>

\* mutant: every requirement type, definition included, is an obligation
IsObligation_AnyRequirement(requirement_type, legacy_obligation) ==
    requirement_type # "other" \/ legacy_obligation

\* mutant: the legacy fallback is dropped
IsObligation_NoLegacy(requirement_type, legacy_obligation) ==
    requirement_type \in {"obligation", "prohibition", "permission"}

\* the if/else that sets is_obligation
IsObligation(requirement_type, legacy_obligation) ==
    IF requirement_type # "other"
    THEN requirement_type \in {"obligation", "prohibition", "permission"}
    ELSE legacy_obligation

\* the if/elif chain that sets obligation_type
ObligationType(text, is_obligation, requirement_type) ==
    IF ~is_obligation THEN None
    ELSE IF Matches(P1("vigilance"), text) THEN "vigilance"
    ELSE IF Matches(P2("post-market", "surveillance"), text) THEN "post_market_surveillance"
    ELSE IF Matches(P1("classification"), text) THEN "classification_rule"
    ELSE IF Matches(P2("risk", "management"), text) THEN "risk_management"
    ELSE IF Matches(P2("conformity", "assessment"), text) THEN "conformity_assessment"
    ELSE IF Matches(P2("clinical", "investigation"), text) THEN "clinical_investigation"
    ELSE IF requirement_type # "other"
            /\ requirement_type \in {"obligation", "prohibition", "permission", "definition"}
         THEN requirement_type
    ELSE "general_obligation"

enrich_semantics(text, kind, celex, l) ==
    LET requirement_type == classify_requirement_type(text, l)
        legacy_obligation == AnyMatch(LegacyObligationPatterns, text)
        is_obligation == IsObligation(requirement_type, legacy_obligation)
        reg_type == RegulationType(celex)
        detected_roles ==
            IF reg_type = "medical_device_regulation" THEN mdr_role_detector(text, l)
            ELSE IF reg_type = "ai_regulation" THEN eu_ai_role_detector(text, l)
            ELSE <<>>
    IN  [is_obligation |-> is_obligation,
         obligation_type |-> ObligationType(text, is_obligation, requirement_type),
         roles |-> detected_roles,
         semantic_role |-> IF detected_roles # <<>> THEN detected_roles[1] ELSE None]

\* ------------------------------------------------------------------------
\* Language keywords and cross-references
\* (domain/ontology/lang_keywords.py, base/cross_refs.py)
\* ------------------------------------------------------------------------
\* LANG_KEYWORDS.get(lang, LANG_KEYWORDS["EN"]), folded for re.I
LANG_KEYWORDS(l) ==
    CASE l = "DE" -> [title |-> "titel", chapter |-> "kapitel", section |-> "abschnitt",
                      article |-> "artikel", annex |-> "anhang"]
      [] l = "FR" -> [title |-> "titre", chapter |-> "chapitre", section |-> "section",
                      article |-> "article", annex |-> "annexe"]
      [] OTHER -> [title |-> "title", chapter |-> "chapter", section |-> "section",
                   article |-> "article", annex |-> "annex"]

\* the keyword as written in the table (used in f"{keywords['article']} {marker}")
ArticleKeyword(l) == IF l = "DE" THEN "Artikel" ELSE "Article"
AnnexKeyword(l) == IF l = "DE" THEN "ANHANG" ELSE IF l = "FR" THEN "ANNEXE" ELSE "ANNEX"

\* tokens that begin with [IVXLCDM]+ under re.I, and the run they begin with
RomanPrefixTokens == {"I", "II", "IV", "i", "ii", "iv", "compliance"}
LeadingRoman(t) == IF t = "compliance" THEN "c" ELSE t

\* re.findall(rf"{kw}\s+(\d+)", text, re.I), left to right
RECURSIVE FindAllArticles(_, _, _)
FindAllArticles(text, kw, i) ==
    IF i >= Len(text) THEN <<>>
    ELSE (IF Fold(text[i]) = kw /\ text[i + 1] \in DigitPrefixTokens
          THEN << <<"Article", LeadingDigits(text[i + 1])>> >> ELSE <<>>)
         \o FindAllArticles(text, kw, i + 1)

\* re.findall(rf"{kw}\s+([IVXLCDM]+)", text, re.I), left to right
RECURSIVE FindAllAnnexes(_, _, _)
FindAllAnnexes(text, kw, i) ==
    IF i >= Len(text) THEN <<>>
    ELSE (IF Fold(text[i]) = kw /\ text[i + 1] \in RomanPrefixTokens
          THEN << <<"Annex", LeadingRoman(text[i + 1])>> >> ELSE <<>>)
         \o FindAllAnnexes(text, kw, i + 1)

extract_references(text, l) ==
    FindAllArticles(text, LANG_KEYWORDS(l).article, 1)
    \o FindAllAnnexes(text, LANG_KEYWORDS(l).annex, 1)

\* ------------------------------------------------------------------------
\* Level table (base/hierarchy.py)
\* ------------------------------------------------------------------------
\* mutant: the annex ranked after every other level
LEVEL_ORDER_AnnexLast ==
    [title |-> 0, recital |-> 1, chapter |-> 2, section |-> 3, article |-> 4,
     paragraph |-> 5, letter |-> 6, subpoint |-> 7, annex |-> 8]

LEVEL_ORDER ==
    [title |-> 0, recital |-> 1, chapter |-> 2, section |-> 3, article |-> 4,
     paragraph |-> 5, letter |-> 6, subpoint |-> 7, annex |-> 0]

\* LEVEL_ORDER.get(level, 99)
Rank(level) == IF level \in DOMAIN LEVEL_ORDER THEN LEVEL_ORDER[level] ELSE 99

\* ------------------------------------------------------------------------
\* Block classification and numbering (base/parser_utils.py)
\* ------------------------------------------------------------------------
\* classify_block: the type of a block with a non-empty text
classify_block(tag, text, l) ==
    LET keywords == LANG_KEYWORDS(l)
        second(S) == Len(text) >= 2 /\ Fold(text[2]) \in S
    IN  IF Fold(text[1]) = keywords.annex /\ second(RomanTokens) THEN "annex_title"
        ELSE IF Fold(text[1]) = keywords.chapter /\ second(RomanTokens) THEN "chapter_title"
        ELSE IF Fold(text[1]) = keywords.section /\ second(RomanTokens \cup DigitTokens)
             THEN "section_title"
        ELSE IF Fold(text[1]) = keywords.article /\ second(DigitPrefixTokens)
             THEN "article_title"
        ELSE IF tag = "table" THEN "table"
        ELSE "paragraph"

\* detect_numbering: the six patterns in order; every pattern needs a
\* non-empty rest (.+) after the numbering prefix
detect_numbering(text) ==
    LET first == Fold(text[1])
        hit(lv) == [level |-> lv, marker |-> Group1(text[1]), body |-> Tail2(text, 2)]
    IN  IF Len(text) < 2 THEN [level |-> None, marker |-> None, body |-> text]
        ELSE IF first \in Dotted3Tokens THEN hit("subsection")
        ELSE IF first \in Dotted2Tokens THEN hit("subsection")
        ELSE IF first \in NumDotTokens THEN hit("section")
        ELSE IF first \in ParenNumTokens THEN hit("paragraph")
        ELSE IF first \in ParenLetterTokens THEN hit("point")
        ELSE IF first \in ParenRomanTokens THEN hit("subpoint")
        ELSE [level |-> None, marker |-> None, body |-> text]

\* ------------------------------------------------------------------------
\* Parser configurations (eu_ai_parser.py, mdr_parser.py) and
\* the shared helpers (base/parser_core.py)
\* ------------------------------------------------------------------------
HeadingLevels == {"title", "chapter", "section", "article", "annex"}

LEVEL_NORMALIZATION ==
    [section |-> "paragraph", subsection |-> "paragraph", point |-> "letter"]

CONFIG_EU_AI ==
    [celex_id |-> CELEX_AI,
     level_normalization |-> LEVEL_NORMALIZATION,
     non_requirement_levels |-> {"title", "chapter", "section", "annex", "recital"},
     reference_excluded_levels |-> {},
     path_skip_levels |-> {"title"},
     role_detector |-> "eu_ai"]

CONFIG_MDR ==
    [celex_id |-> CELEX_MDR,
     level_normalization |-> LEVEL_NORMALIZATION,
     non_requirement_levels |-> HeadingLevels,
     reference_excluded_levels |-> HeadingLevels,
     path_skip_levels |-> {"title"},
     role_detector |-> "mdr"]

\* mutant: once register_role_detector has been called, the registered global
\* detector is used instead of the detector of the configuration
RoleDetector_Registry(config, text, l) ==
    IF conc.pc = "running" /\ conc.role_detector = "registered" THEN <<"registered">>
    ELSE IF config.role_detector = "eu_ai" THEN eu_ai_role_detector(text, l)
    ELSE mdr_role_detector(text, l)

\* config.resolve_role_detector()(text, lang)
RoleDetector(config, text, l) ==
    IF config.role_detector = "eu_ai" THEN eu_ai_role_detector(text, l)
    ELSE mdr_role_detector(text, l)

\* mutant: the level normalization map is not applied
canonicalize_numbered_level_Raw(level, config) == level

\* mutant: only the dotted and "N." numbering levels are normalized
canonicalize_numbered_level_NoPoint(level, config) ==
    IF level \in {"section", "subsection"} THEN "paragraph" ELSE level

canonicalize_numbered_level(level, config) ==
    IF level = None THEN None
    ELSE IF level \in DOMAIN config.level_normalization
         THEN config.level_normalization[level]
    ELSE level

\* mutant: the id carries a serial number taken from state outside the call
make_provision_id_Ambient(config, parent_id, level, marker, l) ==
    (IF parent_id # <<>> THEN parent_id ELSE <<config.celex_id, l>>)
    \o <<level, IF marker # None THEN marker ELSE "UNNUMBERED", ToString(Len(input))>>

\* mutant: the parent id is not used; every id starts at the document
make_provision_id_NoParent(config, parent_id, level, marker, l) ==
    <<config.celex_id, l, level, IF marker # None THEN marker ELSE "UNNUMBERED">>

\* the id is the "_"-join of the returned parts; no marker of the vocabulary
\* contains a space, so replace(" ", "_") leaves the marker as it is
make_provision_id(config, parent_id, level, marker, l) ==
    LET marker_token == IF marker # None THEN marker ELSE "UNNUMBERED"
    IN  IF parent_id # <<>> THEN parent_id \o <<level, marker_token>>
        ELSE <<config.celex_id, l, level, marker_token>>

make_path_segment(level, marker) ==
    IF level = None THEN <<>>
    ELSE IF marker = None THEN <<Upper(level)>>
    ELSE <<Upper(level), Upper(marker)>>

\* stk is the list of the open ancestors (records), bottom first
RECURSIVE AncestorSegments(_, _, _)
AncestorSegments(stk, path_skip_levels, k) ==
    IF k > Len(stk) THEN <<>>
    ELSE (IF stk[k].level \in path_skip_levels THEN <<>>
          ELSE <<make_path_segment(stk[k].level, stk[k].item_number)>>)
         \o AncestorSegments(stk, path_skip_levels, k + 1)

\* mutant: no level is skipped
build_path_NoSkip(stk, level, marker, path_skip_levels) ==
    AncestorSegments(stk, {}, 1) \o <<make_path_segment(level, marker)>>

build_path(stk, level, marker, path_skip_levels) ==
    AncestorSegments(stk, path_skip_levels, 1) \o <<make_path_segment(level, marker)>>

compute_requirement_fields(config, level, text_for_analysis, l) ==
    IF level \in config.non_requirement_levels
    THEN [is_requirement |-> FALSE, requirement_type |-> "other", roles |-> <<>>]
    ELSE [is_requirement |-> is_requirement_text(text_for_analysis, l),
          requirement_type |-> classify_requirement_type(text_for_analysis, l),
          roles |-> RoleDetector(config, text_for_analysis, l)]

compute_references(config, level, text, l) ==
    IF level \in config.reference_excluded_levels THEN <<>>
    ELSE extract_references(text, l)

\* depth of a record whose path is given
RecordDepth(path, stk) == Len(path)

build_provision_record(config, stk, level, marker, l, title, text, intro_text, parent_id, text_for_analysis) ==
    LET path == build_path(stk, level, marker, config.path_skip_levels)
        req_fields == compute_requirement_fields(config, level, text_for_analysis, l)
    IN  [id |-> make_provision_id(config, parent_id, level, marker, l),
         parent_id |-> parent_id,
         level |-> level,
         item_number |-> marker,
         title |-> title,
         text |-> text,
         intro_text |-> intro_text,
         path |-> path,
         depth |-> RecordDepth(path, stk),
         references |-> compute_references(config, level, text_for_analysis, l),
         is_requirement |-> req_fields.is_requirement,
         requirement_type |-> req_fields.requirement_type,
         roles |-> req_fields.roles]

\* ------------------------------------------------------------------------
\* The loop body of parse_eu_ai_act and parse_mdr, up to the level decision
\* ------------------------------------------------------------------------
Max(a, b) == IF a >= b THEN a ELSE b

HeadingTypes == {"title", "chapter_title", "section_title", "article_title", "annex_title"}

\* re.search(r"\b(\d+)\b", text): the first bare number of the text, or None
\* mutant: no bare number is ever found
FirstBareNumber_None(text) == None

FirstBareNumber(text) ==
    IF \E i \in 1..Len(text) : text[i] \in BareNumberTokens
    THEN LET i == CHOOSE i \in 1..Len(text) :
                      /\ text[i] \in BareNumberTokens
                      /\ \A j \in 1..(i - 1) : text[j] \notin BareNumberTokens
         IN  FirstNumberIn(text[i])
    ELSE None

\* the marker of a title/chapter/section/annex heading: the numeral after the
\* keyword, else the first numeral word of the text, else the default
HeadingMarker(text, kw, numerals, default) ==
    IF \E i \in 1..(Len(text) - 1) : Fold(text[i]) = kw /\ Fold(text[i + 1]) \in numerals
    THEN LET i == CHOOSE i \in 1..(Len(text) - 1) :
                      /\ Fold(text[i]) = kw /\ Fold(text[i + 1]) \in numerals
                      /\ \A j \in 1..(i - 1) :
                             ~(Fold(text[j]) = kw /\ Fold(text[j + 1]) \in numerals)
         IN  text[i + 1]
    ELSE IF \E i \in 1..Len(text) : Fold(text[i]) \in numerals
    THEN LET i == CHOOSE i \in 1..Len(text) :
                      /\ Fold(text[i]) \in numerals
                      /\ \A j \in 1..(i - 1) : Fold(text[j]) \notin numerals
         IN  text[i]
    ELSE default

\* the branch "if block_type in (title, chapter_title, ...)" of both parsers
HeadingFields(block_type, text, l) ==
    LET keywords == LANG_KEYWORDS(l)
        plain(lv, mk) == [level |-> lv, marker |-> mk, title_text |-> text, intro_text |-> <<>>]
    IN  CASE block_type = "title" ->
                plain("title", HeadingMarker(text, keywords.title, RomanTokens, "TITLE"))
          [] block_type = "chapter_title" ->
                plain("chapter", HeadingMarker(text, keywords.chapter, RomanTokens, "CHAPTER"))
          [] block_type = "section_title" ->
                plain("section", HeadingMarker(text, keywords.section,
                                               RomanTokens \cup DigitTokens, "SECTION"))
          [] block_type = "annex_title" ->
                plain("annex", HeadingMarker(text, keywords.annex, RomanTokens, AnnexKeyword(l)))
          [] block_type = "article_title" ->
                IF Len(text) >= 2 /\ Fold(text[1]) = keywords.article /\ text[2] \in DigitTokens
                THEN [level |-> "article", marker |-> text[2],
                      title_text |-> <<ArticleKeyword(l), text[2]>>,
                      intro_text |-> Tail2(text, 3)]
                ELSE LET m2 == FirstBareNumber(text)
                     IN  plain("article", IF m2 # None THEN m2 ELSE "ARTICLE")
          [] OTHER -> [level |-> None, marker |-> None, title_text |-> <<>>, intro_text |-> <<>>]

\* ^(Whereas|Considerant|Erwaegungsgrund) under re.I
WhereasTokens == {"whereas"}

\* parse_mdr, lines 87-153: level, marker, body, title and intro of a block
MdrResolve(tag, text, l) ==
    LET block_type == classify_block(tag, text, l)
        h == HeadingFields(block_type, text, l)
        num == detect_numbering(text)
    IN  IF h.level # None
        THEN [level |-> h.level, marker |-> h.marker, body |-> text,
              title_text |-> h.title_text, intro_text |-> h.intro_text]
        ELSE [level |-> canonicalize_numbered_level(num.level, CONFIG_MDR),
              marker |-> num.marker, body |-> num.body,
              title_text |-> <<>>, intro_text |-> <<>>]

\* parse_eu_ai_act, lines 102-150: level, marker, body, title, intro and the
\* in_preamble flag after the heading branch and the numbering branch
EuAiBase(h, num, text, inpre, rc) ==
    [level |-> IF h.level # None THEN h.level
               ELSE canonicalize_numbered_level(num.level, CONFIG_EU_AI),
     marker |-> IF h.level # None THEN h.marker ELSE num.marker,
     body |-> IF h.level # None THEN text ELSE num.body,
     title_text |-> h.title_text,
     intro_text |-> h.intro_text,
     in_preamble |-> IF h.level \in HeadingLevels THEN FALSE ELSE inpre,
     recital_counter |-> rc]

\* mutant: a recital without numeral does not advance the counter
EuAiRecital_NoIncrement(base, text, stack_empty, m) ==
    IF base.level = "paragraph" /\ base.in_preamble /\ stack_empty
    THEN [base EXCEPT !.level = "recital", !.title_text = text,
                      !.recital_counter = Max(@, ToInt(base.marker))]
    ELSE IF base.level = None /\ Fold(text[1]) \in WhereasTokens
    THEN IF m # None
         THEN [base EXCEPT !.level = "recital", !.title_text = text, !.marker = m,
                           !.recital_counter = Max(@, ToInt(m))]
         ELSE [base EXCEPT !.level = "recital", !.title_text = text,
                           !.marker = PreambleMarker(base.recital_counter + 1)]
    ELSE base

\* mutant: the Whereas rule applies only while the preamble is open
EuAiRecital_PreambleOnly(base, text, stack_empty, m) ==
    IF base.level = "paragraph" /\ base.in_preamble /\ stack_empty
    THEN [base EXCEPT !.level = "recital", !.title_text = text,
                      !.recital_counter = Max(@, ToInt(base.marker))]
    ELSE IF base.level = None /\ Fold(text[1]) \in WhereasTokens /\ base.in_preamble
    THEN IF m # None
         THEN [base EXCEPT !.level = "recital", !.title_text = text, !.marker = m,
                           !.recital_counter = Max(@, ToInt(m))]
         ELSE [base EXCEPT !.level = "recital", !.title_text = text,
                           !.marker = PreambleMarker(base.recital_counter + 1),
                           !.recital_counter = @ + 1]
    ELSE base

\* parse_eu_ai_act, lines 152-170: the two recital rules
EuAiRecital(base, text, stack_empty, m) ==
    IF base.level = "paragraph" /\ base.in_preamble /\ stack_empty
    THEN IF base.marker # None /\ IsDigit(base.marker)
         THEN [base EXCEPT !.level = "recital", !.title_text = text,
                           !.recital_counter = Max(@, ToInt(base.marker))]
         ELSE [base EXCEPT !.level = "recital", !.title_text = text,
                           !.recital_counter = @ + 1,
                           !.marker = IF @ # None THEN @
                                      ELSE PreambleMarker(base.recital_counter + 1)]
    ELSE IF base.level = None /\ Fold(text[1]) \in WhereasTokens
    THEN IF m # None
         THEN [base EXCEPT !.level = "recital", !.title_text = text, !.marker = m,
                           !.recital_counter = Max(@, ToInt(m))]
         ELSE [base EXCEPT !.level = "recital", !.title_text = text,
                           !.marker = PreambleMarker(base.recital_counter + 1),
                           !.recital_counter = @ + 1]
    ELSE base

\* parse_eu_ai_act, lines 87-170: what the loop body decides about a block
EuAiResolve(tag, text, l, stack_empty, inpre, rc) ==
    EuAiRecital(EuAiBase(HeadingFields(classify_block(tag, text, l), text, l),
                         detect_numbering(text), text, inpre, rc),
                text, stack_empty, FirstBareNumber(text))

\* ------------------------------------------------------------------------
\* Input blocks: (tag name, normalized text) of soup.find_all([...])
\* ------------------------------------------------------------------------
P(text) == [tag |-> "p", text |-> text]

B_Article5 == P(<<"Article", "5">>)
B_ChapterI == P(<<"CHAPTER", "I">>)
B_AnnexI == P(<<"ANNEX", "I">>)
B_Par1 == P(<<"1.", "The", "provider", "shall", "ensure", "compliance">>)
B_LetterA == P(<<"(a)", "registration", "records">>)
B_Paren1 == P(<<"(1)", "the", "deployer", "may", "not", "use", "Article", "5">>)
B_SubII == P(<<"(ii)", "'term'", "means", "records">>)
B_Plain == P(<<"registration", "records">>)
B_Whereas == P(<<"Whereas", "providers", "must", "register">>)
B_Empty == [tag |-> "p", text |-> <<>>]
B_Artikel5 == P(<<"Artikel", "5">>)
B_Abschnitt1 == P(<<"ABSCHNITT", "1">>)
B_Par1DE == P(<<"1.", "anbieter", "darf", "nicht">>)
B_Artikel5Pflicht == P(<<"Artikel", "5", "anbieter", "muss">>)

BlocksEN ==
    {B_Article5, B_ChapterI, B_AnnexI, B_Par1, B_LetterA, B_Paren1,
     B_SubII, B_Plain, B_Whereas}

BlocksDE ==
    {B_Artikel5, B_Abschnitt1, B_Article5, B_Par1DE, B_LetterA, B_Empty,
     B_Artikel5Pflicht}

B_ChapitreI == P(<<"CHAPITRE", "I">>)
B_Par1FR == P(<<"1.", "doit">>)
B_Whereas5 == P(<<"Whereas", "5", "providers">>)
B_Article5a == P(<<"Article", "5a">>)
B_Article5a2 == P(<<"Article", "5a", "2">>)

BlocksFR ==
    {B_ChapitreI, B_Article5, B_Par1FR, B_LetterA, B_Plain, B_Whereas, B_Whereas5,
     B_Article5a, B_Article5a2}

Blocks(l) == IF l = "DE" THEN BlocksDE ELSE IF l = "FR" THEN BlocksFR ELSE BlocksEN

StackLangs == {"EN", "DE"}

\* the parts of the state a behaviour of another component leaves alone
EmptyMap == [x \in {} |-> 0]
CtxIdle == [provisions |-> <<>>, relations |-> <<>>, nodes |-> EmptyMap]
SemIdle == [pc |-> "idle"]
ConcIdle == [pc |-> "idle"]
PipeIdle == [pc |-> "idle"]
RefsIdle == [pc |-> "idle"]
CallIdle == [pc |-> "idle"]

InitIdleAux == conc = ConcIdle /\ pipe = PipeIdle /\ refs = RefsIdle /\ call = CallIdle

\* ------------------------------------------------------------------------
\* The stack machines
\* ------------------------------------------------------------------------
TopLevel(stk, provs) == provs[stk[Len(stk)]].level

\* mutant: the pop loop compares ranks only, a recital on top is not popped
RECURSIVE PopStackEuAi_RankOnly(_, _, _)
PopStackEuAi_RankOnly(stk, provs, current_rank) ==
    IF stk # <<>> /\ Rank(TopLevel(stk, provs)) >= current_rank
    THEN PopStackEuAi_RankOnly(SubSeq(stk, 1, Len(stk) - 1), provs, current_rank)
    ELSE stk

\* mutant: besides recitals only entries of a strictly higher rank are popped
RECURSIVE PopStackEuAi_Strict(_, _, _)
PopStackEuAi_Strict(stk, provs, current_rank) ==
    IF stk # <<>> /\ (Rank(TopLevel(stk, provs)) > current_rank
                      \/ TopLevel(stk, provs) = "recital")
    THEN PopStackEuAi_Strict(SubSeq(stk, 1, Len(stk) - 1), provs, current_rank)
    ELSE stk

\* parse_eu_ai_act: while stack and (rank(top) >= current_rank or top is a recital)
RECURSIVE PopStackEuAi(_, _, _)
PopStackEuAi(stk, provs, current_rank) ==
    IF stk # <<>> /\ (Rank(TopLevel(stk, provs)) >= current_rank
                      \/ TopLevel(stk, provs) = "recital")
    THEN PopStackEuAi(SubSeq(stk, 1, Len(stk) - 1), provs, current_rank)
    ELSE stk

\* mutant: "if" instead of "while", at most one entry is popped
PopStackMdr_Once(stk, provs, current_rank) ==
    IF stk # <<>> /\ Rank(TopLevel(stk, provs)) >= current_rank
    THEN SubSeq(stk, 1, Len(stk) - 1)
    ELSE stk

\* mutant: only entries of a strictly higher rank are popped
RECURSIVE PopStackMdr_Strict(_, _, _)
PopStackMdr_Strict(stk, provs, current_rank) ==
    IF stk # <<>> /\ Rank(TopLevel(stk, provs)) > current_rank
    THEN PopStackMdr_Strict(SubSeq(stk, 1, Len(stk) - 1), provs, current_rank)
    ELSE stk

\* parse_mdr: while stack and rank(top) >= current_rank
RECURSIVE PopStackMdr(_, _, _)
PopStackMdr(stk, provs, current_rank) ==
    IF stk # <<>> /\ Rank(TopLevel(stk, provs)) >= current_rank
    THEN PopStackMdr(SubSeq(stk, 1, Len(stk) - 1), provs, current_rank)
    ELSE stk

\* the records of the open ancestors, bottom first
StackRecords(stk, provs) == [k \in 1..Len(stk) |-> provs[stk[k]]]

\* mutant: the parent is the bottom of the stack
ParentId_Bottom(stk, provs) == IF stk # <<>> THEN provs[stk[1]].id ELSE <<>>

\* parent_id = stack[-1]["id"] if stack else None
ParentId(stk, provs) == IF stk # <<>> THEN provs[stk[Len(stk)]].id ELSE <<>>

\* mutant: the HAS_CHILD edge is recorded from child to parent
NewEdges_Swapped(provision) ==
    (IF provision.parent_id # <<>>
     THEN << <<provision.id, "HAS_CHILD", provision.parent_id>> >> ELSE <<>>)
    \o [k \in 1..Len(provision.references) |->
            <<provision.id, "REFERENCES", provision.references[k]>>]

\* mutant: the REFERENCES edges are appended before the HAS_CHILD edge
NewEdges_ReferencesFirst(provision) ==
    [k \in 1..Len(provision.references) |->
            <<provision.id, "REFERENCES", provision.references[k]>>]
    \o (IF provision.parent_id # <<>>
        THEN << <<provision.parent_id, "HAS_CHILD", provision.id>> >> ELSE <<>>)

\* the edges appended for a new provision
NewEdges(provision) ==
    (IF provision.parent_id # <<>>
     THEN << <<provision.parent_id, "HAS_CHILD", provision.id>> >> ELSE <<>>)
    \o [k \in 1..Len(provision.references) |->
            <<provision.id, "REFERENCES", provision.references[k]>>]

\* mutant: the absorbed text is appended to the text field of the stack top
AbsorbInto_Text(provs, stk, text) ==
    [provs EXCEPT ![stk[Len(stk)]].text = @ \o text]

\* mutant: the absorbed text goes to the bottom of the stack, not to its top
AbsorbInto_Bottom(provs, stk, text) ==
    [provs EXCEPT ![stk[1]].intro_text = @ \o text]

\* stack[-1]["intro_text"] = (parent_intro + " " + text).strip()
AbsorbInto(provs, stk, text) ==
    [provs EXCEPT ![stk[Len(stk)]].intro_text = @ \o text]

\* a loop iteration that ends in "continue" without touching anything:
\* an empty block, or a block without level while the stack is empty
EuAiSkip ==
    \E b \in Blocks(lang) :
    /\ component = "stack" /\ parser = "eu_ai"
    /\ Len(input) < MaxBlocks
    /\ \/ b.text = <<>>
       \/ /\ b.text # <<>>
          /\ EuAiResolve(b.tag, b.text, lang, stack = <<>>, in_preamble,
                         recital_counter).level = None
          /\ stack = <<>>
    /\ input' = Append(input, b)
    /\ UNCHANGED <<component, parser, lang, provisions, relations, stack,
                   recital_counter, in_preamble, ctx, sem, auxVars>>

\* a block without level is absorbed by the open top of the stack
EuAiAbsorb ==
    \E b \in Blocks(lang) :
    /\ component = "stack" /\ parser = "eu_ai"
    /\ Len(input) < MaxBlocks
    /\ b.text # <<>>
    /\ EuAiResolve(b.tag, b.text, lang, stack = <<>>, in_preamble,
                   recital_counter).level = None
    /\ stack # <<>>
    /\ provisions' = AbsorbInto(provisions, stack, b.text)
    /\ input' = Append(input, b)
    /\ UNCHANGED <<component, parser, lang, relations, stack,
                   recital_counter, in_preamble, ctx, sem, auxVars>>

\* a block with a level creates a provision
EuAiEmit ==
    \E b \in Blocks(lang) :
    /\ component = "stack" /\ parser = "eu_ai"
    /\ Len(input) < MaxBlocks
    /\ b.text # <<>>
    /\ LET r == EuAiResolve(b.tag, b.text, lang, stack = <<>>, in_preamble, recital_counter)
           stk == PopStackEuAi(stack, provisions, Rank(r.level))
           provision ==
               build_provision_record(CONFIG_EU_AI, StackRecords(stk, provisions),
                                      r.level, r.marker, lang, r.title_text, r.body,
                                      r.intro_text, ParentId(stk, provisions), r.body)
       IN  /\ r.level # None
           /\ provisions' = Append(provisions, provision)
           /\ relations' = relations \o NewEdges(provision)
           /\ stack' = Append(stk, Len(provisions) + 1)
           /\ recital_counter' = r.recital_counter
           /\ in_preamble' = r.in_preamble
    /\ input' = Append(input, b)
    /\ UNCHANGED <<component, parser, lang, ctx, sem, auxVars>>

MdrSkip ==
    \E b \in Blocks(lang) :
    /\ component = "stack" /\ parser = "mdr"
    /\ Len(input) < MaxBlocks
    /\ \/ b.text = <<>>
       \/ /\ b.text # <<>>
          /\ MdrResolve(b.tag, b.text, lang).level = None
          /\ stack = <<>>
    /\ input' = Append(input, b)
    /\ UNCHANGED <<component, parser, lang, provisions, relations, stack,
                   recital_counter, in_preamble, ctx, sem, auxVars>>

MdrAbsorb ==
    \E b \in Blocks(lang) :
    /\ component = "stack" /\ parser = "mdr"
    /\ Len(input) < MaxBlocks
    /\ b.text # <<>>
    /\ MdrResolve(b.tag, b.text, lang).level = None
    /\ stack # <<>>
    /\ provisions' = AbsorbInto(provisions, stack, b.text)
    /\ input' = Append(input, b)
    /\ UNCHANGED <<component, parser, lang, relations, stack,
                   recital_counter, in_preamble, ctx, sem, auxVars>>

MdrEmit ==
    \E b \in Blocks(lang) :
    /\ component = "stack" /\ parser = "mdr"
    /\ Len(input) < MaxBlocks
    /\ b.text # <<>>
    /\ LET r == MdrResolve(b.tag, b.text, lang)
           stk == PopStackMdr(stack, provisions, Rank(r.level))
           stored_text == IF r.level \in CONFIG_MDR.non_requirement_levels
                          THEN b.text ELSE r.body
           provision ==
               build_provision_record(CONFIG_MDR, StackRecords(stk, provisions),
                                      r.level, r.marker, lang, r.title_text, stored_text,
                                      r.intro_text, ParentId(stk, provisions), r.body)
       IN  /\ r.level # None
           /\ provisions' = Append(provisions, provision)
           /\ relations' = relations \o NewEdges(provision)
           /\ stack' = Append(stk, Len(provisions) + 1)
    /\ input' = Append(input, b)
    /\ UNCHANGED <<component, parser, lang, recital_counter, in_preamble, ctx, sem, auxVars>>

StackStep ==
    \/ EuAiSkip \/ EuAiAbsorb \/ EuAiEmit
    \/ MdrSkip \/ MdrAbsorb \/ MdrEmit

InitStack ==
    /\ component = "stack"
    /\ parser \in {"eu_ai", "mdr"}
    /\ lang \in StackLangs
    /\ provisions = <<>>
    /\ relations = <<>>
    /\ stack = <<>>
    /\ recital_counter = 0
    /\ in_preamble = TRUE
    /\ input = <<>>
    /\ ctx = CtxIdle
    /\ sem = SemIdle
    /\ InitIdleAux

SpecStack == InitStack /\ [][StackStep]_vars

\* parse_eu_ai_act alone
InitEuAi == InitStack /\ parser = "eu_ai"

EuAiStep == EuAiSkip \/ EuAiAbsorb \/ EuAiEmit

SpecEuAi == InitEuAi /\ [][EuAiStep]_vars

\* ------------------------------------------------------------------------
\* One invocation as a function of its block sequence
\* ------------------------------------------------------------------------
\* the local variables of one call of parse_eu_ai_act or parse_mdr
InitRun ==
    [provisions |-> <<>>, relations |-> <<>>, stack |-> <<>>,
     recital_counter |-> 0, in_preamble |-> TRUE]

\* the record pushed by an iteration that creates a provision
Emitted(run, stk, provision, rc, inpre) ==
    [provisions |-> Append(run.provisions, provision),
     relations |-> run.relations \o NewEdges(provision),
     stack |-> Append(stk, Len(run.provisions) + 1),
     recital_counter |-> rc,
     in_preamble |-> inpre]

\* the branch "if not level: if stack: ...; continue"
Absorbed(run, text) ==
    IF run.stack = <<>> THEN run
    ELSE [run EXCEPT !.provisions = AbsorbInto(run.provisions, run.stack, text)]

EuAiEmitted(run, b, l, r, stk) ==
    Emitted(run, stk,
            build_provision_record(CONFIG_EU_AI, StackRecords(stk, run.provisions),
                                   r.level, r.marker, l, r.title_text, r.body,
                                   r.intro_text, ParentId(stk, run.provisions), r.body),
            r.recital_counter, r.in_preamble)

EuAiResolved(run, b, l, r) ==
    IF r.level = None THEN Absorbed(run, b.text)
    ELSE EuAiEmitted(run, b, l, r, PopStackEuAi(run.stack, run.provisions, Rank(r.level)))

\* one iteration of the loop of parse_eu_ai_act on block b
EuAiIteration(run, b, l) ==
    IF b.text = <<>> THEN run
    ELSE EuAiResolved(run, b, l,
                      EuAiResolve(b.tag, b.text, l, run.stack = <<>>, run.in_preamble,
                                  run.recital_counter))

MdrEmitted(run, b, l, r, stk) ==
    Emitted(run, stk,
            build_provision_record(CONFIG_MDR, StackRecords(stk, run.provisions),
                                   r.level, r.marker, l, r.title_text,
                                   IF r.level \in CONFIG_MDR.non_requirement_levels
                                   THEN b.text ELSE r.body,
                                   r.intro_text, ParentId(stk, run.provisions), r.body),
            run.recital_counter, run.in_preamble)

MdrResolved(run, b, l, r) ==
    IF r.level = None THEN Absorbed(run, b.text)
    ELSE MdrEmitted(run, b, l, r, PopStackMdr(run.stack, run.provisions, Rank(r.level)))

\* one iteration of the loop of parse_mdr on block b
MdrIteration(run, b, l) ==
    IF b.text = <<>> THEN run
    ELSE MdrResolved(run, b, l, MdrResolve(b.tag, b.text, l))

Iteration(p, run, b, l) ==
    IF p = "eu_ai" THEN EuAiIteration(run, b, l) ELSE MdrIteration(run, b, l)

\* the call run from scratch on the first n blocks
RECURSIVE RunOn(_, _, _, _)
RunOn(p, l, blocks, n) ==
    IF n = 0 THEN InitRun
    ELSE Iteration(p, RunOn(p, l, blocks, n - 1), blocks[n], l)

\* ------------------------------------------------------------------------
\* ParserContext (ingestion/parse/utils.py)
\* ------------------------------------------------------------------------
\* A node is referred to by its index in ctx.provisions (the dict object);
\* ctx.nodes maps an id to the object last registered under it.  The fields
\* text, lang, title and number play no part in the tree and are left out.

\* (kind, html_id) of the make_node calls of the sub-extractors
NodeShapes ==
    {<<"preamble", "preamble">>, <<"recital", "rct_1">>, <<"enacting_terms", "enc_1">>,
     <<"chapter", "cpt_I">>, <<"article", "art_1">>, <<"paragraph", "001.001">>}

child_path(c, parent) ==
    IF parent = 0 THEN <<>>
    ELSE Append(c.provisions[parent].path, c.provisions[parent].id)

\* mutant: every node with a parent is given depth 1
NodeDepth_Flat(c, parent) == IF parent = 0 THEN 0 ELSE 1

\* hierarchy_depth of a new node under parent (0: no parent)
NodeDepth(c, parent) ==
    IF parent = 0 THEN 0 ELSE c.provisions[parent].hierarchy_depth + 1

MapPut(f, k, v) == [x \in DOMAIN f \cup {k} |-> IF x = k THEN v ELSE f[x]]

\* add_node: append, register under the id, then append the id to the
\* children of the object registered under parent_id
add_node(c, node, parent_id) ==
    LET provs1 == Append(c.provisions, node)
        nodes1 == MapPut(c.nodes, node.id, Len(provs1))
        provs2 == IF parent_id # <<>> /\ parent_id \in DOMAIN nodes1
                  THEN [provs1 EXCEPT ![nodes1[parent_id]].children = Append(@, node.id)]
                  ELSE provs1
    IN  [c EXCEPT !.provisions = provs2, !.nodes = nodes1]

make_node(c, celex, kind, html_id, parent) ==
    LET parent_id == IF parent = 0 THEN <<>> ELSE c.provisions[parent].id
        node == [id |-> <<celex, html_id>>,
                 kind |-> kind,
                 hierarchy_depth |-> NodeDepth(c, parent),
                 path |-> child_path(c, parent),
                 parent_id |-> parent_id,
                 children |-> <<>>]
    IN  add_node(c, node, parent_id)

\* parse_eurlex_html: root = ctx.make_node("document", "document", ..., None)
CtxMakeRoot ==
    /\ component = "ctx"
    /\ ctx.provisions = <<>>
    /\ ctx' = make_node(ctx, CELEX_AI, "document", "document", 0)
    /\ UNCHANGED <<component, stackVars, sem, auxVars>>

\* a make_node call of a sub-extractor, under a node created before
CtxMakeNode ==
    \E shape \in NodeShapes, parent \in 1..Len(ctx.provisions) :
    /\ component = "ctx"
    /\ ctx.provisions # <<>>
    /\ Len(ctx.provisions) < MaxNodes
    /\ ctx' = make_node(ctx, CELEX_AI, shape[1], shape[2], parent)
    /\ UNCHANGED <<component, stackVars, sem, auxVars>>

CtxStep == CtxMakeRoot \/ CtxMakeNode

InitIdleStack ==
    /\ parser = "eu_ai"
    /\ lang = "EN"
    /\ provisions = <<>>
    /\ relations = <<>>
    /\ stack = <<>>
    /\ recital_counter = 0
    /\ in_preamble = TRUE
    /\ input = <<>>

InitCtx ==
    /\ component = "ctx"
    /\ InitIdleStack
    /\ ctx = CtxIdle
    /\ sem = SemIdle
    /\ InitIdleAux

SpecCtx == InitCtx /\ [][CtxStep]_vars

\* ------------------------------------------------------------------------
\* Calls of the semantic functions on a text
\* ------------------------------------------------------------------------
SemVocabulary(l) ==
    CASE l = "DE" -> {"muss", "darf", "nicht", "bezeichnet", "anbieter"}
      [] l = "FR" -> {"doit", "ne", "pas", "peut", "signifie"}
      [] OTHER -> {"shall", "not", "may", "'term'", "means", "ensure", "provider",
                   "deployer", "are", "required", "to"}

SemTexts(l) == UNION {[1..n -> SemVocabulary(l)] : n \in 0..MaxTextLen}

SemLangs == {"EN", "DE", "FR"}

SemCelex == {CELEX_AI, CELEX_MDR, "31995L0046"}

\* classify_requirement_type(text, lang) and is_requirement_text(text, lang)
SemClassify ==
    /\ component = "sem"
    /\ sem.pc = "start"
    /\ sem' = [sem EXCEPT !.pc = "classified",
                          !.requirement_type = classify_requirement_type(sem.text, sem.lang),
                          !.is_requirement = is_requirement_text(sem.text, sem.lang)]
    /\ UNCHANGED <<component, stackVars, ctx, auxVars>>

\* enrich_semantics(text, kind, celex, lang)
SemEnrich ==
    /\ component = "sem"
    /\ sem.pc = "classified"
    /\ sem' = [sem EXCEPT !.pc = "done",
                          !.result = enrich_semantics(sem.text, "paragraph", sem.celex, sem.lang)]
    /\ UNCHANGED <<component, stackVars, ctx, auxVars>>

SemStep == SemClassify \/ SemEnrich

InitSem ==
    /\ component = "sem"
    /\ InitIdleStack
    /\ ctx = CtxIdle
    /\ InitIdleAux
    /\ \E l \in SemLangs, c \in SemCelex :
          \E t \in SemTexts(l) :
              sem = [pc |-> "start", text |-> t, lang |-> l, celex |-> c,
                     requirement_type |-> None, is_requirement |-> FALSE,
                     result |-> [is_obligation |-> FALSE, obligation_type |-> None,
                                 roles |-> <<>>, semantic_role |-> None]]

SpecSem == InitSem /\ [][SemStep]_vars

\* ------------------------------------------------------------------------
\* Two invocations for different documents, interleaved
\* ------------------------------------------------------------------------
\* Each invocation owns its locals (provisions, relations, stack and the two
\* counters); the module-level state another call can write is the global
\* ROLE_DETECTOR of parser_utils, rebound by register_role_detector.
ConcBlocks == {B_Article5, B_Par1, B_Plain}

ConcDocuments == <<[parser |-> "eu_ai", lang |-> "EN"], [parser |-> "mdr", lang |-> "EN"]>>

\* invocation k runs one iteration of its loop on its next block
ConcIteration ==
    \E k \in 1..2, b \in ConcBlocks :
    /\ component = "conc"
    /\ Len(conc.runs[k].input) < MaxConcBlocks
    /\ LET doc == conc.runs[k]
           next == [doc EXCEPT !.input = Append(doc.input, b),
                               !.st = Iteration(doc.parser, doc.st, b, doc.lang)]
       IN  conc' = [conc EXCEPT !.runs[k] = next]
    /\ UNCHANGED <<component, stackVars, ctx, sem, pipe, refs, call>>

\* register_role_detector(fn), called between two iterations
ConcRegister ==
    /\ component = "conc"
    /\ conc.role_detector = "default"
    /\ conc' = [conc EXCEPT !.role_detector = "registered"]
    /\ UNCHANGED <<component, stackVars, ctx, sem, pipe, refs, call>>

ConcStep == ConcIteration \/ ConcRegister

InitConc ==
    /\ component = "conc"
    /\ InitIdleStack
    /\ ctx = CtxIdle
    /\ sem = SemIdle
    /\ pipe = PipeIdle
    /\ refs = RefsIdle
    /\ call = CallIdle
    /\ conc = [pc |-> "running",
               role_detector |-> "default",
               runs |-> [k \in 1..2 |->
                           [parser |-> ConcDocuments[k].parser,
                            lang |-> ConcDocuments[k].lang,
                            input |-> <<>>,
                            st |-> InitRun]]]

SpecConc == InitConc /\ [][ConcStep]_vars

\* ------------------------------------------------------------------------
\* parse_document (dispatcher.py) and run (run_pipeline.py)
\* ------------------------------------------------------------------------
\* pipe.effects lists, in order, what the call has done to the outside world.
\* run imports parse_document from the package ingestion.parse, whose
\* __init__.py defines its own version: it calls parser(html_file, lang), and
\* the registered parse_eurlex_html needs three positional arguments, so that
\* call raises TypeError, which run catches.
PARSER_REGISTRY == {CELEX_MDR, CELEX_AI}

REGULATIONS == {CELEX_MDR, CELEX_AI}

PipeCelex == {CELEX_MDR, CELEX_AI, "31995L0046", "32016R0679"}

PipeLangs == {"EN", "DE", "FR"}

\* mutant: the registry lookup accepts every CELEX
RegistryHas_Any(celex) == TRUE

\* parser = PARSER_REGISTRY.get(celex); "if not parser" fails when absent
RegistryHas(celex) == celex \in PARSER_REGISTRY

PipeDid(effect) == [pipe EXCEPT !.effects = Append(@, effect)]

PipeEnd(p, pc, result) == [p EXCEPT !.pc = pc, !.result = result]

\* dispatcher.parse_document, lines 31-33
PdLookup ==
    /\ component = "pipe" /\ pipe.pc = "pd_lookup"
    /\ pipe' = IF RegistryHas(pipe.celex) THEN [pipe EXCEPT !.pc = "pd_read"]
               ELSE PipeEnd(pipe, "raised", "KeyError")
    /\ UNCHANGED <<component, stackVars, ctx, sem, conc, refs, call>>

\* line 36: read_text succeeds or raises
PdRead ==
    /\ component = "pipe" /\ pipe.pc = "pd_read"
    /\ \E ok \in BOOLEAN :
          pipe' = IF ok THEN [PipeDid("read_html") EXCEPT !.pc = "pd_parse"]
                  ELSE PipeEnd(PipeDid("read_html"), "raised", "OSError")
    /\ UNCHANGED <<component, stackVars, ctx, sem, conc, refs, call>>

\* line 41: the parser returns or raises
PdParse ==
    /\ component = "pipe" /\ pipe.pc = "pd_parse"
    /\ \E ok \in BOOLEAN :
          pipe' = IF ok THEN [PipeDid("parser") EXCEPT !.pc = "pd_write"]
                  ELSE PipeEnd(PipeDid("parser"), "raised", "Exception")
    /\ UNCHANGED <<component, stackVars, ctx, sem, conc, refs, call>>

\* lines 80-85
PdWrite ==
    /\ component = "pipe" /\ pipe.pc = "pd_write"
    /\ pipe' = PipeEnd([pipe EXCEPT !.effects = @ \o <<"mkdir", "write_parsed_json">>],
                       "returned", "parsed.json")
    /\ UNCHANGED <<component, stackVars, ctx, sem, conc, refs, call>>


\* ------------------------------------------------------------------------
\* extract_references on one text, and the REFERENCES edges made from it
\* ------------------------------------------------------------------------
MaxRefLen == 4

RefTokens == {"Article", "article", "Artikel", "5", "ANNEX", "I", "see"}

RECURSIVE RefTexts(_)
RefTexts(n) ==
    IF n = 0 THEN {<<>>}
    ELSE RefTexts(n - 1)
         \cup {Append(t, w) : t \in {u \in RefTexts(n - 1) : Len(u) = n - 1}, w \in RefTokens}

\* the provision of the text, as far as the edge loop reads it
RefsProvision ==
    [id |-> <<CELEX_AI, refs.lang, "paragraph", "1">>,
     parent_id |-> <<>>,
     references |-> refs.references]

\* cross_refs.extract_references, lines 18-25
RefsExtract ==
    /\ component = "refs" /\ refs.pc = "extract"
    /\ refs' = [refs EXCEPT !.pc = "edges",
                            !.references = extract_references(refs.text, refs.lang)]
    /\ UNCHANGED <<component, stackVars, ctx, sem, conc, pipe, call>>

\* eu_ai_parser.py, lines 205-208
RefsEdges ==
    /\ component = "refs" /\ refs.pc = "edges"
    /\ refs' = [refs EXCEPT !.pc = "done", !.relations = NewEdges(RefsProvision)]
    /\ UNCHANGED <<component, stackVars, ctx, sem, conc, pipe, call>>

RefsStep == RefsExtract \/ RefsEdges

InitRefs ==
    /\ component = "refs"
    /\ InitIdleStack
    /\ ctx = CtxIdle
    /\ sem = SemIdle
    /\ conc = ConcIdle
    /\ pipe = PipeIdle
    /\ call = CallIdle
    /\ \E text \in RefTexts(MaxRefLen), l \in {"EN", "DE"} :
          refs = [pc |-> "extract", text |-> text, lang |-> l,
                  references |-> <<>>, relations |-> <<>>]

SpecRefs == InitRefs /\ [][RefsStep]_vars

\* ------------------------------------------------------------------------
\* One call of detect_numbering
\* ------------------------------------------------------------------------
MaxNumLen == 2

NumTokens ==
    {"1.1.1", "1.1", "1.", "(1)", "(a)", "(A)", "(i)", "(I)", "(v)", "(ii)", "(iv)",
     "5", "text", "I"}

RECURSIVE NumTexts(_)
NumTexts(n) ==
    IF n = 0 THEN {<<>>}
    ELSE NumTexts(n - 1)
         \cup {Append(t, w) : t \in {u \in NumTexts(n - 1) : Len(u) = n - 1}, w \in NumTokens}

\* parser_utils.detect_numbering, lines 101-125; the empty text matches nothing
NumDetect ==
    /\ component = "num" /\ call.pc = "call"
    /\ call' = [call EXCEPT !.pc = "returned",
                            !.result = IF call.text = <<>>
                                       THEN [level |-> None, marker |-> None, body |-> <<>>]
                                       ELSE detect_numbering(call.text)]
    /\ UNCHANGED <<component, stackVars, ctx, sem, conc, pipe, refs>>

InitNum ==
    /\ component = "num"
    /\ InitIdleStack
    /\ ctx = CtxIdle
    /\ sem = SemIdle
    /\ conc = ConcIdle
    /\ pipe = PipeIdle
    /\ refs = RefsIdle
    /\ \E text \in NumTexts(MaxNumLen) :
          call = [pc |-> "call", fn |-> "detect_numbering", text |-> text, result |-> None]

SpecNum == InitNum /\ [][NumDetect]_vars

\* ------------------------------------------------------------------------
\* parse_eurlex_html (universal_eurlex_parser.py) and its four sub-extractors
\* ------------------------------------------------------------------------
\* A document is described by what soup.find returns for each section root
\* and by what lies under it: pbl_1 absent, empty or with one recital; enc_1
\* absent, empty or with one chapter; fnp_1 absent or present; the anx_*
\* containers absent, only the skipped anx_ES, or one annex.
EurlexDocuments ==
    [pbl : {"absent", "empty", "recital"},
     enc : {"absent", "empty", "chapter"},
     fnp : {"absent", "present"},
     anx : {"absent", "only_ES", "annex"}]

\* index in c.provisions of the node the last make_node returned
Made(c) == Len(c.provisions)

\* mutant: the preamble node is made whether or not pbl_1 was found
parse_preamble_Always(c, celex, doc) == make_node(c, celex, "preamble", "preamble", 1)

\* preamble_parser.parse_preamble; the root is provisions[1]
parse_preamble(c, celex, doc) ==
    IF doc.pbl = "absent" THEN c
    ELSE LET c1 == make_node(c, celex, "preamble", "preamble", 1)
         IN  IF doc.pbl = "recital" THEN make_node(c1, celex, "recital", "rct_1", Made(c1))
             ELSE c1

\* enacting_terms_parser.parse_enacting_terms
parse_enacting_terms(c, celex, doc) ==
    IF doc.enc = "absent" THEN c
    ELSE LET c1 == make_node(c, celex, "enacting_terms", "enc_1", 1)
         IN  IF doc.enc = "chapter" THEN make_node(c1, celex, "chapter", "cpt_I", Made(c1))
             ELSE c1

\* final_provisions_parser.parse_final_provisions
parse_final_provisions(c, celex, doc) ==
    IF doc.fnp = "absent" THEN c
    ELSE make_node(c, celex, "final_provisions", "fnp_1", 1)

\* annex_parser.parse_annexes; anx_ES is skipped by the loop
parse_annexes(c, celex, doc) ==
    IF doc.anx = "absent" THEN c
    ELSE LET c1 == make_node(c, celex, "annexes", "annexes", 1)
         IN  IF doc.anx = "annex" THEN make_node(c1, celex, "annex", "anx_I", Made(c1))
             ELSE c1

EurlexAt(pc) == component = "eurlex" /\ call.pc = pc

EurlexTo(pc) == [call EXCEPT !.pc = pc, !.ran = IF call.pc = "root" THEN @ ELSE Append(@, call.pc)]

\* lines 20-28: ctx = ParserContext(...); root = ctx.make_node("document", ...)
EurlexRoot ==
    /\ EurlexAt("root")
    /\ ctx' = make_node(ctx, call.celex, "document", "document", 0)
    /\ call' = EurlexTo("preamble")
    /\ UNCHANGED <<component, stackVars, sem, conc, pipe, refs>>

\* line 30
EurlexPreamble ==
    /\ EurlexAt("preamble")
    /\ ctx' = parse_preamble(ctx, call.celex, call.doc)
    /\ call' = EurlexTo("enacting_terms")
    /\ UNCHANGED <<component, stackVars, sem, conc, pipe, refs>>

\* line 31
EurlexEnactingTerms ==
    /\ EurlexAt("enacting_terms")
    /\ ctx' = parse_enacting_terms(ctx, call.celex, call.doc)
    /\ call' = EurlexTo("final_provisions")
    /\ UNCHANGED <<component, stackVars, sem, conc, pipe, refs>>

\* line 32
EurlexFinalProvisions ==
    /\ EurlexAt("final_provisions")
    /\ ctx' = parse_final_provisions(ctx, call.celex, call.doc)
    /\ call' = EurlexTo("annexes")
    /\ UNCHANGED <<component, stackVars, sem, conc, pipe, refs>>

\* lines 33-35: parse_annexes, then the return of the two lists
EurlexAnnexes ==
    /\ EurlexAt("annexes")
    /\ ctx' = parse_annexes(ctx, call.celex, call.doc)
    /\ call' = [EurlexTo("returned") EXCEPT
                   !.result = [provisions |-> ctx'.provisions, relations |-> ctx'.relations]]
    /\ UNCHANGED <<component, stackVars, sem, conc, pipe, refs>>

EurlexStep ==
    \/ EurlexRoot \/ EurlexPreamble \/ EurlexEnactingTerms
    \/ EurlexFinalProvisions \/ EurlexAnnexes

InitEurlex ==
    /\ component = "eurlex"
    /\ InitIdleStack
    /\ ctx = CtxIdle
    /\ sem = SemIdle
    /\ conc = ConcIdle
    /\ pipe = PipeIdle
    /\ refs = RefsIdle
    /\ \E doc \in EurlexDocuments, celex \in PARSER_REGISTRY :
          call = [pc |-> "root", fn |-> "parse_eurlex_html", celex |-> celex, doc |-> doc,
                  ran |-> <<>>, result |-> None]

SpecEurlex == InitEurlex /\ [][EurlexStep]_vars

\* ------------------------------------------------------------------------
\* build_path: in a French run of parse_eu_ai_act, and called on its own
\* ------------------------------------------------------------------------
\* classify_block has no branch that returns "title", so no stack of a parser
\* run holds a title node; the direct call covers the stacks that do.
PathAncestors ==
    [level : {"title", "chapter", "article"}, item_number : {"I", "5", None}]

PathStacks ==
    {<<>>} \cup {<<a>> : a \in PathAncestors}
    \cup {<<a, b>> : a \in PathAncestors, b \in PathAncestors}

\* parser_core.build_path with the default path_skip_levels of ParserConfig
PathBuild ==
    /\ component = "path" /\ call.pc = "call"
    /\ call' = [call EXCEPT !.pc = "returned",
                            !.result = build_path(call.stack, call.level, call.marker,
                                                  CONFIG_EU_AI.path_skip_levels)]
    /\ UNCHANGED <<component, stackVars, ctx, sem, conc, pipe, refs>>

InitPathCall ==
    /\ component = "path"
    /\ InitIdleStack
    /\ ctx = CtxIdle
    /\ sem = SemIdle
    /\ conc = ConcIdle
    /\ pipe = PipeIdle
    /\ refs = RefsIdle
    /\ \E stk \in PathStacks, level \in {"article", "paragraph"}, marker \in {"1", None} :
          call = [pc |-> "call", fn |-> "build_path", stack |-> stk, level |-> level,
                  marker |-> marker, result |-> None]

\* parse_eu_ai_act on a French document
InitEuAiFr ==
    /\ component = "stack"
    /\ parser = "eu_ai"
    /\ lang = "FR"
    /\ provisions = <<>>
    /\ relations = <<>>
    /\ stack = <<>>
    /\ recital_counter = 0
    /\ in_preamble = TRUE
    /\ input = <<>>
    /\ ctx = CtxIdle
    /\ sem = SemIdle
    /\ InitIdleAux

SpecEuAiFr == InitEuAiFr /\ [][EuAiStep]_vars

InitPath == InitEuAiFr \/ InitPathCall

PathStep == EuAiStep \/ PathBuild

SpecPath == InitPath /\ [][PathStep]_vars

\* the two tree builders: the stack machines and ParserContext
InitTree == InitStack \/ InitCtx

NextTree == StackStep \/ CtxStep

SpecTree == InitTree /\ [][NextTree]_vars

\* ------------------------------------------------------------------------
\* The whole model
\* ------------------------------------------------------------------------
\* ------------------------------------------------------------------------
\* The two parse_document functions: ingestion/parse/__init__.py (the one
\* run imports) and ingestion/parse/dispatcher.py, called on the same input
\* ------------------------------------------------------------------------
\* REGULATIONS.get(celex, {}).get("name")
RegulationName(celex) ==
    CASE celex = CELEX_MDR -> "MDR 2017/745"
      [] celex = CELEX_AI -> "EU AI Act"
      [] OTHER -> "None"

\* parse_eurlex_html as a whole: the root, the four sub-extractors in order,
\* and the dict of the two lists it returns
parse_eurlex_html(celex, doc) ==
    LET c0 == make_node(CtxIdle, celex, "document", "document", 0)
        c1 == parse_preamble(c0, celex, doc)
        c2 == parse_enacting_terms(c1, celex, doc)
        c3 == parse_final_provisions(c2, celex, doc)
        c4 == parse_annexes(c3, celex, doc)
    IN  [shape |-> "dict", provisions |-> c4.provisions, relations |-> c4.relations]

\* the bare arguments of a call: positional values and keyword arguments
NoArgs == [positional |-> <<>>, keywords |-> <<>>]

\* Calling the registered parser, def parse_eurlex_html(html_content, celex,
\* regulation_id, lang="EN"): with fewer than three positional arguments the
\* call raises TypeError; otherwise the second positional is the celex.
CallRegisteredParser(args, doc) ==
    IF Len(args.positional) < 3
    THEN [raised |-> "TypeError", result |-> <<>>]
    ELSE [raised |-> "None", result |-> <<parse_eurlex_html(args.positional[2], doc)>>]

\* the output dict, without graph_version and the time stamp
ParsedJson(celex, provs, rels) ==
    [celex_id |-> celex,
     regulation_id |-> IF RegulationName(celex) # "None" THEN RegulationName(celex) ELSE celex,
     source_name |-> IF RegulationName(celex) # "None" THEN RegulationName(celex) ELSE "unknown",
     provisions |-> provs,
     relations |-> rels]

\* __init__.py 36-49: a 2-tuple, a list, and anything else through list(),
\* which for a dict gives the list of its keys
NormalisePackage(result) ==
    CASE result.shape = "tuple" -> [provisions |-> result.provisions, relations |-> result.relations]
      [] result.shape = "list" -> [provisions |-> result.provisions, relations |-> <<>>]
      [] OTHER -> [provisions |-> <<"provisions", "relations">>, relations |-> <<>>]

\* dispatcher.py 43-64: a dict, a 2-tuple, a list
NormaliseDispatcher(result) ==
    CASE result.shape = "dict" -> [provisions |-> result.provisions, relations |-> result.relations]
      [] result.shape = "tuple" -> [provisions |-> result.provisions, relations |-> result.relations]
      [] OTHER -> [provisions |-> result.provisions, relations |-> <<>>]

\* what a parse_document call did: the arguments it gave the parser, the
\* exception it raised, and the parsed.json it wrote (a list of at most one)
Outcome(args, raised, written) == [parser_args |-> args, raised |-> raised, written |-> written]

\* ingestion/parse/__init__.py parse_document: result = parser(html_file, lang)
package_parse_document(celex, l, doc, readable) ==
    IF ~RegistryHas(celex) THEN Outcome(NoArgs, "KeyError", <<>>)
    ELSE LET args == [positional |-> <<"html_file", l>>, keywords |-> <<>>]
             ret == CallRegisteredParser(args, doc)
         IN  IF ret.raised # "None" THEN Outcome(args, ret.raised, <<>>)
             ELSE LET n == NormalisePackage(ret.result[1])
                  IN  Outcome(args, "None", <<ParsedJson(celex, n.provisions, n.relations)>>)

\* dispatcher.py parse_document: html_content = read_text(...);
\* result = parser(html_content, celex, regulation_id, lang=lang)
dispatcher_parse_document(celex, l, doc, readable) ==
    IF ~RegistryHas(celex) THEN Outcome(NoArgs, "KeyError", <<>>)
    ELSE IF ~readable THEN Outcome(NoArgs, "OSError", <<>>)
    ELSE LET regulation_id == IF RegulationName(celex) # "None" THEN RegulationName(celex)
                              ELSE celex
             args == [positional |-> <<"html_content", celex, regulation_id>>,
                      keywords |-> << <<"lang", l>> >>]
             ret == CallRegisteredParser(args, doc)
         IN  IF ret.raised # "None" THEN Outcome(args, ret.raised, <<>>)
             ELSE LET n == NormaliseDispatcher(ret.result[1])
                  IN  Outcome(args, "None", <<ParsedJson(celex, n.provisions, n.relations)>>)

\* the package's parse_document runs on the input
PackageParseDocument ==
    /\ component = "disp" /\ call.package = <<>>
    /\ call' = [call EXCEPT !.package =
                   <<package_parse_document(call.celex, call.lang, call.doc, call.readable)>>]
    /\ UNCHANGED <<component, stackVars, ctx, sem, conc, pipe, refs>>

\* the dispatcher's parse_document runs on the same input
DispatcherParseDocument ==
    /\ component = "disp" /\ call.dispatcher = <<>>
    /\ call' = [call EXCEPT !.dispatcher =
                   <<dispatcher_parse_document(call.celex, call.lang, call.doc, call.readable)>>]
    /\ UNCHANGED <<component, stackVars, ctx, sem, conc, pipe, refs>>

DispStep == PackageParseDocument \/ DispatcherParseDocument

InitDisp ==
    /\ component = "disp"
    /\ InitIdleStack
    /\ ctx = CtxIdle
    /\ sem = SemIdle
    /\ conc = ConcIdle
    /\ pipe = PipeIdle
    /\ refs = RefsIdle
    /\ \E celex \in PipeCelex, l \in PipeLangs, doc \in EurlexDocuments, readable \in BOOLEAN :
          call = [pc |-> "call", fn |-> "parse_document", celex |-> celex, lang |-> l,
                  doc |-> doc, readable |-> readable, package |-> <<>>, dispatcher |-> <<>>]

SpecDisp == InitDisp /\ [][DispStep]_vars

\* ------------------------------------------------------------------------
\* run (run_pipeline.py); pipe.html_file and pipe.json_file are its locals
\* ------------------------------------------------------------------------
\* run, lines 66-68
RunValidate ==
    /\ component = "pipe" /\ pipe.pc = "run_validate"
    /\ pipe' = IF pipe.celex \in REGULATIONS THEN [pipe EXCEPT !.pc = "run_mkdir"]
               ELSE PipeEnd(pipe, "returned", None)
    /\ UNCHANGED <<component, stackVars, ctx, sem, conc, refs, call>>

\* lines 70-79
RunMkdir ==
    /\ component = "pipe" /\ pipe.pc = "run_mkdir"
    /\ pipe' = [PipeDid("mkdir") EXCEPT !.pc = "run_discover"]
    /\ UNCHANGED <<component, stackVars, ctx, sem, conc, refs, call>>

\* mutant: the scraper is called whether or not an HTML file was found
AfterDiscover_AlwaysScrape(found) == "run_scrape"

\* lines 82-86: with an existing HTML file the scraper is skipped
AfterDiscover(found) == IF found THEN "run_parse" ELSE "run_scrape"

\* lines 82-85: an HTML file is already there, or not
RunDiscover ==
    /\ component = "pipe" /\ pipe.pc = "run_discover"
    /\ \E found \in BOOLEAN :
          pipe' = [pipe EXCEPT !.pc = AfterDiscover(found),
                               !.html_file = IF found THEN "existing.html" ELSE @]
    /\ UNCHANGED <<component, stackVars, ctx, sem, conc, refs, call>>

\* lines 87-92: scrape_document returns the file it wrote, or raises
RunScrape ==
    /\ component = "pipe" /\ pipe.pc = "run_scrape"
    /\ \E ok \in BOOLEAN :
          pipe' = IF ok THEN [PipeDid("scrape") EXCEPT !.pc = "run_parse",
                                                      !.html_file = "scraped.html"]
                  ELSE PipeEnd(PipeDid("scrape"), "returned", None)
    /\ UNCHANGED <<component, stackVars, ctx, sem, conc, refs, call>>

\* lines 95-102: json_file = parse_document(...) of ingestion/parse/__init__.py;
\* an exception gives None, otherwise json_file is returned
RunParse ==
    /\ component = "pipe" /\ pipe.pc = "run_parse"
    /\ \E doc \in EurlexDocuments :
          LET out == package_parse_document(pipe.celex, pipe.lang, doc, TRUE)
              done == [pipe EXCEPT !.effects = @ \o <<"parse_document">>
                                       \o (IF out.parser_args # NoArgs THEN <<"parser">> ELSE <<>>)]
          IN  pipe' = IF out.raised # "None" THEN PipeEnd(done, "returned", None)
                      ELSE PipeEnd([done EXCEPT !.json_file = "parsed.json"],
                                   "returned", "parsed.json")
    /\ UNCHANGED <<component, stackVars, ctx, sem, conc, refs, call>>

PipeStep ==
    \/ PdLookup \/ PdRead \/ PdParse \/ PdWrite
    \/ RunValidate \/ RunMkdir \/ RunDiscover \/ RunScrape \/ RunParse

InitPipe ==
    /\ component = "pipe"
    /\ InitIdleStack
    /\ ctx = CtxIdle
    /\ sem = SemIdle
    /\ conc = ConcIdle
    /\ refs = RefsIdle
    /\ call = CallIdle
    /\ \E entry \in {"parse_document", "run"}, c \in PipeCelex, l \in PipeLangs :
          pipe = [pc |-> IF entry = "run" THEN "run_validate" ELSE "pd_lookup",
                  entry |-> entry, celex |-> c, lang |-> l,
                  html_file |-> IF entry = "run" THEN None ELSE "raw.html",
                  json_file |-> None, effects |-> <<>>, result |-> None]

SpecPipe == InitPipe /\ [][PipeStep]_vars

\* ------------------------------------------------------------------------
\* Rank lookups (base/hierarchy.py): the ranks LEVEL_ORDER.get gives for a
\* pair of levels, as the pop loops compare them
\* ------------------------------------------------------------------------
StructuralLevels ==
    {"title", "recital", "chapter", "section", "article", "paragraph", "letter", "subpoint",
     "annex"}

RankLookup ==
    /\ component = "rank" /\ call.pc = "call"
    /\ call' = [call EXCEPT !.pc = "returned",
                            !.result = [a |-> Rank(call.a), b |-> Rank(call.b)]]
    /\ UNCHANGED <<component, stackVars, ctx, sem, conc, pipe, refs>>

InitRank ==
    /\ component = "rank"
    /\ InitIdleStack
    /\ ctx = CtxIdle
    /\ sem = SemIdle
    /\ conc = ConcIdle
    /\ pipe = PipeIdle
    /\ refs = RefsIdle
    /\ \E a \in StructuralLevels, b \in StructuralLevels :
          call = [pc |-> "call", fn |-> "LEVEL_ORDER.get", a |-> a, b |-> b, result |-> None]

SpecRank == InitRank /\ [][RankLookup]_vars

Init ==
    \/ InitTree \/ InitSem \/ InitConc \/ InitPipe \/ InitRefs \/ InitNum \/ InitEurlex
    \/ InitPath \/ InitRank \/ InitDisp

Next ==
    \/ NextTree \/ SemStep \/ ConcStep \/ PipeStep \/ RefsStep \/ NumDetect \/ EurlexStep
    \/ PathBuild \/ RankLookup \/ DispStep

Spec == Init /\ [][Next]_vars

\* ========================================================================
\* Properties
\* ========================================================================
Indices == 1..Len(provisions)

\* indices of the HAS_CHILD edges from src to tgt
ChildEdges(src, tgt) ==
    {k \in 1..Len(relations) : relations[k] = <<src, "HAS_CHILD", tgt>>}

HasChildEdges == {k \in 1..Len(relations) : relations[k][2] = "HAS_CHILD"}

Roots == {i \in Indices : provisions[i].parent_id = <<>>}

\* C1: after any sequence of blocks, no two provisions of the output of
\* parse_eu_ai_act or parse_mdr have the same id.
C1_UniqueIds ==
    component = "stack" =>
        \A i, j \in Indices : i # j => provisions[i].id # provisions[j].id

\* C2: for every provision with a parent_id, parent_id is the id of a provision
\* emitted earlier, and the triple (parent_id, HAS_CHILD, id) is in the
\* relations list exactly once.
C2_TreeIntegrity ==
    component = "stack" =>
        \A i \in Indices :
            provisions[i].parent_id # <<>> =>
                /\ \E j \in 1..(i - 1) : provisions[j].id = provisions[i].parent_id
                /\ Cardinality(ChildEdges(provisions[i].parent_id, provisions[i].id)) = 1

\* C3 as stated: a block sequence that yields at least one provision yields
\* exactly one provision without parent (a single root).
C3_SingleRoot ==
    (component = "stack" /\ provisions # <<>>) => Cardinality(Roots) = 1

\* C3 as amended: the provisions form a forest that may have several roots.
\* The first provision emitted is a root, and every provision with a parent_id
\* has exactly one parent: parent_id is the id of a provision emitted earlier,
\* and every HAS_CHILD edge that points to the provision comes from parent_id.
C3_Forest ==
    (component = "stack" /\ provisions # <<>>) =>
        /\ provisions[1].parent_id = <<>>
        /\ \A i \in Indices :
              provisions[i].parent_id # <<>> =>
                  /\ \E j \in 1..(i - 1) : provisions[j].id = provisions[i].parent_id
                  /\ {relations[k][1] : k \in {e \in HasChildEdges :
                                                  relations[e][3] = provisions[i].id}}
                       = {provisions[i].parent_id}

\* a forest with two roots, one of which has a child
C3_Witness ==
    /\ component = "stack"
    /\ Cardinality(Roots) >= 2
    /\ \E i \in Indices : provisions[i].parent_id # <<>>

\* C4: from parent to child, recital nodes aside, the rank of the level
\* (LEVEL_ORDER) never decreases.
C4_RankMonotone ==
    component = "stack" =>
        \A i, j \in Indices :
            (/\ provisions[i].parent_id # <<>>
             /\ provisions[j].id = provisions[i].parent_id
             /\ provisions[i].level # "recital"
             /\ provisions[j].level # "recital")
            => Rank(provisions[j].level) <= Rank(provisions[i].level)

\* a chain article -> paragraph -> letter, followed by a block that pops it
C4_Witness ==
    /\ component = "stack"
    /\ Len(provisions) >= 4
    /\ provisions[3].level = "letter"
    /\ provisions[3].parent_id = provisions[2].id
    /\ provisions[2].parent_id = provisions[1].id
    /\ Rank(provisions[4].level) < Rank(provisions[3].level)

\* C5: every record built by build_provision_record has depth = len(path), and
\* every node built by ParserContext.make_node has hierarchy_depth = len(path).
C5_DepthIsPathLength ==
    /\ \A i \in Indices : provisions[i].depth = Len(provisions[i].path)
    /\ \A n \in 1..Len(ctx.provisions) :
          ctx.provisions[n].hierarchy_depth = Len(ctx.provisions[n].path)

\* a node two levels below the document root
C5_Witness ==
    /\ component = "ctx"
    /\ \E n \in 1..Len(ctx.provisions) :
          /\ ctx.provisions[n].hierarchy_depth = 2
          /\ Len(ctx.provisions[n].path) = 2

RequirementTypes == {"obligation", "prohibition", "permission", "definition", "other"}

\* the highest-priority category with a matching pattern, else "other"
HighestPriorityCategory(text, l) ==
    IF AnyMatch(REQ_PATTERNS(l).prohibition, text) THEN "prohibition"
    ELSE IF AnyMatch(REQ_PATTERNS(l).obligation, text) THEN "obligation"
    ELSE IF AnyMatch(REQ_PATTERNS(l).permission, text) THEN "permission"
    ELSE IF AnyMatch(REQ_PATTERNS(l).definition, text) THEN "definition"
    ELSE "other"

\* C6: classify_requirement_type returns one of the five types, namely the
\* highest-priority category (prohibition > obligation > permission >
\* definition) that has a matching pattern; an English text with "shall not"
\* or "may not" is a prohibition.
C6_Precedence ==
    (component = "sem" /\ sem.pc # "start") =>
        /\ sem.requirement_type \in RequirementTypes
        /\ sem.requirement_type = HighestPriorityCategory(sem.text, sem.lang)
        /\ (sem.lang = "EN" /\ (Matches(P2("shall", "not"), sem.text)
                                \/ Matches(P2("may", "not"), sem.text)))
           => sem.requirement_type = "prohibition"

\* "provider shall not": matches a prohibition and an obligation pattern
C6_Witness ==
    /\ component = "sem"
    /\ sem.pc = "classified"
    /\ sem.lang = "EN"
    /\ sem.text = <<"provider", "shall", "not">>
    /\ sem.requirement_type = "prohibition"

\* C7: a text that classify_requirement_type classifies as definition gets
\* is_obligation = false from enrich_semantics, and no obligation_type.
C7_DefinitionExclusion ==
    (component = "sem" /\ sem.pc = "done" /\ sem.requirement_type = "definition") =>
        /\ sem.result.is_obligation = FALSE
        /\ sem.result.obligation_type = None

\* a definition that also carries a legacy obligation cue ("ensure")
C7_Witness ==
    /\ component = "sem"
    /\ sem.pc = "done"
    /\ sem.requirement_type = "definition"
    /\ AnyMatch(LegacyObligationPatterns, sem.text)

\* C8 as stated: is_obligation is true only for texts whose requirement type
\* is obligation, prohibition or permission.
C8_OnlyRequirementTypes ==
    (component = "sem" /\ sem.pc = "done" /\ sem.result.is_obligation) =>
        sem.requirement_type \in {"obligation", "prohibition", "permission"}

\* C8 as amended: is_obligation is true exactly when the requirement type is
\* obligation, prohibition or permission, or the type is other and a legacy
\* obligation cue matches; a definition never is an obligation.
C8_WithLegacyFallback ==
    (component = "sem" /\ sem.pc = "done") =>
        (sem.result.is_obligation <=>
            \/ sem.requirement_type \in {"obligation", "prohibition", "permission"}
            \/ /\ sem.requirement_type = "other"
               /\ AnyMatch(LegacyObligationPatterns, sem.text))

\* a text classified other that the legacy cues make an obligation
C8_Witness ==
    /\ component = "sem"
    /\ sem.pc = "done"
    /\ sem.requirement_type = "other"
    /\ sem.result.is_obligation

ScenarioInput == <<B_Article5, B_Par1, B_LetterA>>

InScenario ==
    /\ component = "stack"
    /\ parser = "eu_ai"
    /\ lang = "EN"
    /\ input = ScenarioInput

\* C9: the blocks "Article 5", "1. ...", "(a) ..." yield exactly three
\* provisions article, paragraph, letter, each the parent of the next, and
\* exactly two HAS_CHILD edges.
C9_Scenario ==
    InScenario =>
        /\ Len(provisions) = 3
        /\ provisions[1].level = "article" /\ provisions[1].item_number = "5"
        /\ provisions[2].level = "paragraph" /\ provisions[2].item_number = "1"
        /\ provisions[3].level = "letter" /\ provisions[3].item_number = "a"
        /\ provisions[1].parent_id = <<>>
        /\ provisions[2].parent_id = provisions[1].id
        /\ provisions[3].parent_id = provisions[2].id
        /\ Cardinality(HasChildEdges) = 2
        /\ ChildEdges(provisions[1].id, provisions[2].id) # {}
        /\ ChildEdges(provisions[2].id, provisions[3].id) # {}

C9_Witness == InScenario /\ Len(provisions) = 3 /\ Len(stack) = 3

ProviderText == <<"The", "provider", "shall", "ensure", "compliance">>

IsProviderParagraph(i) ==
    /\ component = "stack" /\ parser = "eu_ai" /\ lang = "EN"
    /\ provisions[i].level = "paragraph"
    /\ provisions[i].text = ProviderText

\* C10 as stated: the paragraph built from "The provider shall ensure
\* compliance." has requirement_type obligation and roles exactly [provider].
C10_RolesProviderOnly ==
    \A i \in Indices :
        IsProviderParagraph(i) =>
            /\ provisions[i].requirement_type = "obligation"
            /\ provisions[i].roles = <<"provider">>

\* C10 as amended: it has requirement_type obligation and roles exactly
\* [provider, operator], since "provider" is a keyword of both roles.
C10_RolesProviderOperator ==
    \A i \in Indices :
        IsProviderParagraph(i) =>
            /\ provisions[i].requirement_type = "obligation"
            /\ provisions[i].is_requirement
            /\ provisions[i].roles = <<"provider", "operator">>

C10_Witness == \E i \in Indices : IsProviderParagraph(i) /\ provisions[i].parent_id # <<>>

\* the block consumed by the step, and whether it has no determinable level
LastBlock == input'[Len(input')]

NoLevel(b) ==
    /\ b.text # <<>>
    /\ IF parser = "eu_ai"
       THEN EuAiResolve(b.tag, b.text, lang, stack = <<>>, in_preamble,
                        recital_counter).level = None
       ELSE MdrResolve(b.tag, b.text, lang).level = None

\* C11: a step on a block without determinable level, with a non-empty stack,
\* creates no provision and no relation and leaves the stack, the recital
\* counter and in_preamble unchanged; the only change is that the block's
\* text is appended to the intro_text of the top-of-stack node.
C11_AbsorbFrame ==
    [][(component = "stack" /\ input' # input /\ stack # <<>> /\ NoLevel(LastBlock)) =>
          /\ Len(provisions') = Len(provisions)
          /\ relations' = relations
          /\ stack' = stack
          /\ recital_counter' = recital_counter
          /\ in_preamble' = in_preamble
          /\ provisions' = [provisions EXCEPT ![stack[Len(stack)]].intro_text =
                                                  @ \o LastBlock.text]]_vars

\* an open article has absorbed the plain block that followed it
C11_Witness ==
    /\ component = "stack"
    /\ input = <<B_Article5, B_Plain>>
    /\ Len(provisions) = 1
    /\ provisions[1].level = "article"
    /\ provisions[1].intro_text = B_Plain.text
    /\ stack = <<1>>

ContainerLevels == {"title", "chapter", "section", "article", "annex", "recital"}

\* C12: every provision whose level is title, chapter, section, article,
\* annex or recital has is_requirement false, requirement_type "other" and
\* no roles, whatever its text and whichever parser produced it.
C12_ContainersNotRequirements ==
    component = "stack" =>
        \A i \in Indices :
            provisions[i].level \in ContainerLevels =>
                /\ provisions[i].is_requirement = FALSE
                /\ provisions[i].requirement_type = "other"
                /\ provisions[i].roles = <<>>

\* indices of the REFERENCES edges whose source is id
ReferenceEdgesFrom(id) ==
    {k \in 1..Len(relations) : relations[k][1] = id /\ relations[k][2] = "REFERENCES"}

\* C13: provisions of level title, chapter, section, article or annex have an
\* empty references list and are never the source of a REFERENCES edge.
C13_HeadingsWithoutReferences ==
    component = "stack" =>
        \A i \in Indices :
            provisions[i].level \in HeadingLevels =>
                /\ provisions[i].references = <<>>
                /\ ReferenceEdgesFrom(provisions[i].id) = {}

\* C14: in parse_eu_ai_act, as long as no title, chapter, section, article or
\* annex heading has been seen, every numbered paragraph block is emitted
\* with level recital and parent_id null, however many of them follow each
\* other.
C14_PreambleRecitals ==
    (component = "stack" /\ parser = "eu_ai" /\ in_preamble) =>
        \A i \in Indices :
            provisions[i].level \in {"paragraph", "recital"} =>
                /\ provisions[i].level = "recital"
                /\ provisions[i].parent_id = <<>>

\* C15: in parse_eu_ai_act no provision has a recital as its parent, and no
\* HAS_CHILD edge starts at a recital.
C15_RecitalNeverParent ==
    (component = "stack" /\ parser = "eu_ai") =>
        /\ \A i, j \in Indices :
              (provisions[i].parent_id # <<>> /\ provisions[i].parent_id = provisions[j].id)
              => provisions[j].level # "recital"
        /\ \A j \in Indices :
              provisions[j].level = "recital" =>
                  \A k \in HasChildEdges : relations[k][1] # provisions[j].id

\* a recital followed by a block of lower rank, which does not become its child
C15_Witness ==
    /\ component = "stack" /\ parser = "eu_ai"
    /\ Len(provisions) = 2
    /\ provisions[1].level = "recital"
    /\ provisions[2].level = "letter"
    /\ provisions[2].parent_id = <<>>
    /\ stack = <<2>>

\* the builder run again, from scratch, on the blocks consumed so far
Rerun == RunOn(parser, lang, input, Len(input))

Ids(provs) == [i \in 1..Len(provs) |-> provs[i].id]

Paths(provs) == [i \in 1..Len(provs) |-> provs[i].path]

C17_InterleavingInvisible ==
    component = "conc" =>
        \A k \in 1..2 :
            conc.runs[k].st =
                RunOn(conc.runs[k].parser, conc.runs[k].lang, conc.runs[k].input,
                      Len(conc.runs[k].input))

\* both invocations have built provisions, one of them role-tagged, and a
\* detector has been registered while they ran
C17_Witness ==
    /\ component = "conc"
    /\ conc.role_detector = "registered"
    /\ \A k \in 1..2 :
          /\ Len(conc.runs[k].input) = MaxConcBlocks
          /\ conc.runs[k].st.provisions # <<>>
    /\ \E i \in 1..Len(conc.runs[1].st.provisions) :
          conc.runs[1].st.provisions[i].roles # <<>>

\* C18: once created, a provision only ever changes in its intro_text, and
\* only while it is the top of the stack; after it has been popped none of
\* its fields changes, and requirement_type, is_requirement, roles and
\* references never change.
C18_SealedWhenPopped ==
    [][component = "stack" =>
          \A i \in 1..Len(provisions) :
              /\ [provisions'[i] EXCEPT !.intro_text = provisions[i].intro_text]
                   = provisions[i]
              /\ provisions'[i].intro_text # provisions[i].intro_text
                 => (stack # <<>> /\ i = stack[Len(stack)])]_vars

\* a provision that absorbed text while open and has been popped since
C18_Witness ==
    /\ component = "stack"
    /\ \E i \in Indices :
          /\ provisions[i].intro_text = B_Plain.text
          /\ \A k \in 1..Len(stack) : stack[k] # i
          /\ i < Len(provisions)

\* C19: parse_document with a CELEX that PARSER_REGISTRY does not hold raises
\* a lookup error (KeyError) without having read the HTML, called a parser or
\* written parsed.json; run with a CELEX that the catalog does not hold
\* returns None without having created a directory, scraped or parsed.
C19_FailFast ==
    component = "pipe" =>
        /\ (pipe.entry = "parse_document" /\ pipe.celex \notin PARSER_REGISTRY
            /\ pipe.pc # "pd_lookup")
           => (pipe.pc = "raised" /\ pipe.result = "KeyError" /\ pipe.effects = <<>>)
        /\ (pipe.entry = "run" /\ pipe.celex \notin REGULATIONS
            /\ pipe.pc # "run_validate")
           => (pipe.pc = "returned" /\ pipe.result = None /\ pipe.effects = <<>>)

\* parse_document has raised for an unknown CELEX
C19_Witness ==
    /\ component = "pipe"
    /\ pipe.entry = "parse_document"
    /\ pipe.celex = "31995L0046"
    /\ pipe.pc = "raised"

\* C20: the references of a provision hold each symbolic target at most
\* once, and there is one REFERENCES edge for each target: a text that names
\* the same Article or Annex several times yields one entry and one edge.
C20_ReferencesAreSet ==
    (component = "refs" /\ refs.pc = "done") =>
        /\ \A i, j \in 1..Len(refs.references) :
              refs.references[i] = refs.references[j] => i = j
        /\ \A i, j \in 1..Len(refs.relations) :
              refs.relations[i] = refs.relations[j] => i = j

\* C21: detect_numbering returns the level of the first matching shape:
\* 'N.N.N text' and 'N.N text' subsection, 'N. text' section, '(N) text'
\* paragraph, '(a) text' with a letter point, '(i) text' with a roman numeral
\* (the one-letter numerals i, v, x included) subpoint, and no level when
\* nothing matches.
C21_NumberingLevels ==
    (component = "num" /\ call.pc = "returned") =>
        LET text == call.text
            first == IF text = <<>> THEN "" ELSE Fold(text[1])
            level == call.result.level
        IN  IF Len(text) < 2 THEN level = None
            ELSE IF first \in Dotted3Tokens \cup Dotted2Tokens THEN level = "subsection"
            ELSE IF first \in NumDotTokens THEN level = "section"
            ELSE IF first \in ParenNumTokens THEN level = "paragraph"
            ELSE IF first \in ParenRomanTokens THEN level = "subpoint"
            ELSE IF first \in ParenLetterTokens THEN level = "point"
            ELSE level = None

\* the role vocabulary enrich_semantics uses for a CELEX and a language
RolePatterns(celex, l) ==
    IF RegulationType(celex) = "medical_device_regulation" THEN MDR_ROLE_KEYWORDS(l)
    ELSE IF RegulationType(celex) = "ai_regulation" THEN EU_AI_ROLE_KEYWORDS(l)
    ELSE <<>>

RoleMatches(pattern, text) ==
    \E n \in 1..Len(pattern.kws) : KeywordMatches(pattern.kws[n], text)

\* C22: the roles returned for a text hold every role with a matching keyword
\* exactly once, in the declaration order of the vocabulary whatever the
\* order of the keywords in the text; semantic_role is the first of them, or
\* None when there is none.
C22_RolesInDeclarationOrder ==
    (component = "sem" /\ sem.pc = "done") =>
        LET patterns == RolePatterns(sem.celex, sem.lang)
            roles == sem.result.roles
            matching == {k \in 1..Len(patterns) : RoleMatches(patterns[k], sem.text)}
        IN  /\ Len(roles) = Cardinality(matching)
            /\ \A i \in 1..Len(roles) :
                  \E k \in matching :
                      /\ patterns[k].role = roles[i]
                      /\ Cardinality({m \in matching : m < k}) = i - 1
            /\ sem.result.semantic_role = (IF roles = <<>> THEN None ELSE roles[1])

\* the deployer is named before the provider, and the provider is returned first
C22_Witness ==
    /\ component = "sem" /\ sem.pc = "done"
    /\ sem.text = <<"deployer", "provider">>
    /\ sem.result.roles = <<"provider", "deployer", "operator">>
    /\ sem.result.semantic_role = "provider"

\* C23: the relations returned by parse_eurlex_html hold the triple
\* (parent_id, HAS_CHILD, id) for every returned provision that has a parent.
C23_HasChildTriples ==
    EurlexAt("returned") =>
        \A i \in 1..Len(call.result.provisions) :
            LET node == call.result.provisions[i]
            IN  node.parent_id # <<>>
                => \E k \in 1..Len(call.result.relations) :
                       call.result.relations[k] = <<node.parent_id, "HAS_CHILD", node.id>>

\* C24: a sub-extractor whose section root is absent leaves ctx.provisions,
\* ctx.nodes and ctx.relations as they were; the four sub-extractors run in
\* the order preamble, enacting terms, final provisions, annexes whatever is
\* absent; and the document root is the first provision in every case.
C24_AbsentSectionSkipped ==
    [][component = "eurlex" =>
          /\ (call.pc = "preamble" /\ call.doc.pbl = "absent") => ctx' = ctx
          /\ (call.pc = "enacting_terms" /\ call.doc.enc = "absent") => ctx' = ctx
          /\ (call.pc = "final_provisions" /\ call.doc.fnp = "absent") => ctx' = ctx
          /\ (call.pc = "annexes" /\ call.doc.anx = "absent") => ctx' = ctx
          /\ ctx'.provisions[1].kind = "document"
          /\ call'.pc = "returned"
             => /\ call'.ran = <<"preamble", "enacting_terms", "final_provisions", "annexes">>
                /\ call'.result.provisions[1].kind = "document"]_vars

\* a document with no preamble and no final provisions, whose enacting terms
\* and annexes were still extracted
C24_Witness ==
    /\ EurlexAt("returned")
    /\ call.doc.pbl = "absent" /\ call.doc.fnp = "absent"
    /\ \E i, j \in 1..Len(ctx.provisions) :
          ctx.provisions[i].kind = "chapter" /\ ctx.provisions[j].kind = "annex"
    /\ \A i \in 1..Len(ctx.provisions) :
          ctx.provisions[i].kind \notin {"preamble", "recital", "final_provisions"}

IsProperPrefix(a, b) == Len(a) < Len(b) /\ SubSeq(b, 1, Len(a)) = a

\* the ids on the parent chain of the provision with the given parent_id
RECURSIVE AncestorIds(_, _)
AncestorIds(parent_id, fuel) ==
    IF parent_id = <<>> \/ fuel = 0 THEN {}
    ELSE {parent_id}
         \cup UNION {AncestorIds(provisions[i].parent_id, fuel - 1) :
                        i \in {j \in Indices : provisions[j].id = parent_id}}

\* C25: the id of an emitted provision is its parent's id followed by its
\* level and marker when it has a parent, and celex, language, level and
\* marker when it has none (UNNUMBERED standing for a missing marker); so the
\* id of each of its ancestors is a proper prefix of its id.
C25_IdComposition ==
    component = "stack" =>
        \A i \in Indices :
            LET p == provisions[i]
                marker_token == IF p.item_number # None THEN p.item_number ELSE "UNNUMBERED"
            IN  /\ p.parent_id # <<>> => p.id = p.parent_id \o <<p.level, marker_token>>
                /\ p.parent_id = <<>>
                   => p.id = <<CONFIG_EU_AI.celex_id, lang, p.level, marker_token>>
                /\ \A a \in AncestorIds(p.parent_id, Len(provisions)) : IsProperPrefix(a, p.id)

\* a provision with a parent and a grandparent
C25_Witness ==
    /\ component = "stack"
    /\ \E i \in Indices : Cardinality(AncestorIds(provisions[i].parent_id, Len(provisions))) >= 2

\* the segment of a node: its level and its marker, upper-cased
SegmentOf(node) ==
    IF node.item_number = None THEN <<Upper(node.level)>>
    ELSE <<Upper(node.level), Upper(node.item_number)>>

\* the segments of the nodes of stk whose level is not skipped, bottom to top
SegmentsOf(stk, skipped) ==
    LET kept == SelectSeq(stk, LAMBDA node : node.level \notin skipped)
    IN  [k \in 1..Len(kept) |-> SegmentOf(kept[k])]

\* C26: the path of a provision is the segments of the nodes open on the
\* stack at its creation, bottom to top, without those whose level is in
\* path_skip_levels, followed by its own segment; when the parent's level is
\* not skipped the path is the parent's path followed by the own segment.
C26_PathFromStack ==
    LET skipped == CONFIG_EU_AI.path_skip_levels
    IN  /\ component = "stack" =>
              /\ \A k \in 1..Len(stack) :
                    provisions[stack[k]].path
                      = SegmentsOf(StackRecords(SubSeq(stack, 1, k - 1), provisions), skipped)
                        \o <<SegmentOf(provisions[stack[k]])>>
              /\ \A i, j \in Indices :
                    (provisions[j].id = provisions[i].parent_id
                     /\ provisions[j].level \notin skipped)
                    => provisions[i].path
                         = Append(provisions[j].path, SegmentOf(provisions[i]))
        /\ (component = "path" /\ call.pc = "returned") =>
              LET own == SegmentOf([level |-> call.level, item_number |-> call.marker])
                  n == Len(call.stack)
              IN  /\ call.result = Append(SegmentsOf(call.stack, skipped), own)
                  /\ (n > 0 /\ call.stack[n].level \notin skipped)
                     => call.result
                          = Append(Append(SegmentsOf(SubSeq(call.stack, 1, n - 1), skipped),
                                          SegmentOf(call.stack[n])), own)

\* a title at the bottom of the stack is left out of the path of a paragraph
\* whose parent is an article
C26_Witness ==
    /\ component = "path" /\ call.pc = "returned"
    /\ call.stack = <<[level |-> "title", item_number |-> "I"],
                      [level |-> "article", item_number |-> "5"]>>
    /\ call.level = "paragraph" /\ call.marker = "1"
    /\ call.result = << <<"ARTICLE", "5">>, <<"PARAGRAPH", "1">> >>

\* the edges of the first n provisions, node by node
RECURSIVE EdgesInCreationOrder(_)
EdgesInCreationOrder(n) ==
    IF n = 0 THEN <<>>
    ELSE LET p == provisions[n]
         IN  EdgesInCreationOrder(n - 1)
             \o (IF p.parent_id # <<>> THEN << <<p.parent_id, "HAS_CHILD", p.id>> >> ELSE <<>>)
             \o [k \in 1..Len(p.references) |-> <<p.id, "REFERENCES", p.references[k]>>]

\* C27: relations lists the edges node by node in creation order: the
\* HAS_CHILD edge of a node (there is one exactly when it has a parent), then
\* its REFERENCES edges in the order of its references; the HAS_CHILD edges
\* are as many as the provisions with a parent.
C27_EdgesInCreationOrder ==
    component = "stack" =>
        /\ relations = EdgesInCreationOrder(Len(provisions))
        /\ Cardinality({k \in 1..Len(relations) : relations[k][2] = "HAS_CHILD"})
             = Cardinality({i \in Indices : provisions[i].parent_id # <<>>})

\* a node with a parent and a reference, followed by a later node with edges
C27_Witness ==
    /\ component = "stack"
    /\ \E i, j \in Indices :
          /\ i < j
          /\ provisions[i].parent_id # <<>> /\ provisions[i].references # <<>>
          /\ provisions[j].parent_id # <<>>

\* C28: every emitted provision, on the stack or not, has a level that is a
\* key of LEVEL_ORDER, so the default rank 99 is never used; subsection and
\* point never appear, and section appears only for a section heading (which
\* carries its heading text as title), never for a numbered block.
C28_LevelsAreRanked ==
    component = "stack" =>
        \A i \in Indices :
            /\ provisions[i].level \in DOMAIN LEVEL_ORDER
            /\ Rank(provisions[i].level) # 99
            /\ provisions[i].level \notin {"subsection", "point"}
            /\ provisions[i].level = "section" =>
                  /\ provisions[i].title = provisions[i].text
                  /\ classify_block("p", provisions[i].text, lang) = "section_title"

\* a 'N.' block and an '(a)' block were emitted as paragraph and letter and
\* are both open on the stack
C28_Witness ==
    /\ component = "stack"
    /\ \E k \in 1..(Len(stack) - 1) :
          /\ provisions[stack[k]].level = "paragraph"
          /\ provisions[stack[k]].item_number = "1"
          /\ provisions[stack[k + 1]].level = "letter"
          /\ provisions[stack[k + 1]].item_number = "a"

\* the n of a synthesized marker PREAMBLE_<n>, 0 for any other marker
SynthesizedNumber(marker) ==
    IF \E n \in 1..12 : marker = PreambleMarker(n)
    THEN CHOOSE n \in 1..12 : marker = PreambleMarker(n)
    ELSE 0

Recitals == {i \in Indices : provisions[i].level = "recital"}

RecitalMarkersOrdered ==
    \A j \in Recitals :
        LET n == SynthesizedNumber(provisions[j].item_number)
        IN  /\ IsDigit(provisions[j].item_number)
               => recital_counter >= ToInt(provisions[j].item_number)
            /\ n > 0 =>
                  /\ n <= recital_counter
                  /\ \A i \in Recitals :
                        i < j =>
                          /\ SynthesizedNumber(provisions[i].item_number) < n
                          /\ IsDigit(provisions[i].item_number)
                             => ToInt(provisions[i].item_number) < n

\* C29: in parse_eu_ai_act the recital counter never decreases; once a
\* recital with the explicit numeral k exists the counter is at least k; a
\* synthesized marker PREAMBLE_<n> has n greater than every n synthesized
\* before and than every explicit recital numeral before, so no two
\* recitals share a synthesized marker.
C29_RecitalCounter ==
    [][(component = "stack" /\ parser = "eu_ai") =>
          /\ recital_counter' >= recital_counter
          /\ RecitalMarkersOrdered']_vars

\* a recital numbered 5 followed by two recitals without numeral
C29_Witness ==
    /\ component = "stack" /\ parser = "eu_ai"
    /\ \E i, j, k \in Recitals :
          /\ i < j /\ j < k
          /\ provisions[i].item_number = "5"
          /\ provisions[j].item_number = PreambleMarker(6)
          /\ provisions[k].item_number = PreambleMarker(7)

\* the block begins with Whereas and is neither a heading nor numbered
IsWhereasBlock(b) ==
    /\ b.text # <<>>
    /\ Fold(b.text[1]) \in WhereasTokens
    /\ classify_block(b.tag, b.text, lang) \notin HeadingTypes
    /\ detect_numbering(b.text).level = None

IsLenientArticle(b) ==
    /\ b.text # <<>>
    /\ classify_block(b.tag, b.text, lang) = "article_title"
    /\ b.text[2] \notin DigitTokens

BareNumbersOf(text) == {i \in 1..Len(text) : text[i] \in {"1", "2", "5"}}

\* C31 as stated: such a block yields an article whose title is the whole
\* heading and whose marker is the first bare number of the text.
C31_MarkerIsBareNumber ==
    [][(component = "stack" /\ parser = "eu_ai" /\ input' # input /\ IsLenientArticle(LastBlock)) =>
          /\ Len(provisions') = Len(provisions) + 1
          /\ provisions'[Len(provisions')].level = "article"
          /\ provisions'[Len(provisions')].title = LastBlock.text
          /\ provisions'[Len(provisions')].item_number \in {"1", "2", "5"}]_vars

\* C31, amended: such a block always yields an article whose title is the
\* whole heading; its marker is the first bare number of the text when there
\* is one and the word ARTICLE when there is none.
C31_LenientArticle ==
    [][(component = "stack" /\ parser = "eu_ai" /\ input' # input /\ IsLenientArticle(LastBlock)) =>
          LET new == provisions'[Len(provisions')]
              numbers == BareNumbersOf(LastBlock.text)
          IN  /\ Len(provisions') = Len(provisions) + 1
              /\ new.level = "article"
              /\ new.title = LastBlock.text
              /\ new.item_number # None
              /\ numbers # {} =>
                    \E i \in numbers :
                        /\ \A j \in numbers : i <= j
                        /\ new.item_number = LastBlock.text[i]
              /\ numbers = {} => new.item_number = "ARTICLE"]_vars

\* both kinds of lenient heading were emitted as articles
C31_Witness ==
    /\ component = "stack" /\ parser = "eu_ai"
    /\ \E i, j \in Indices :
          /\ provisions[i].level = "article" /\ provisions[j].level = "article"
          /\ provisions[i].title = B_Article5a.text /\ provisions[i].item_number = "ARTICLE"
          /\ provisions[j].title = B_Article5a2.text /\ provisions[j].item_number = "2"

\* ------------------------------------------------------------------------
\* Requirement detection and classification together: the two functions on
\* drawn texts, and the records the EU AI parser builds from them
\* ------------------------------------------------------------------------
InitReq == InitSem \/ InitEuAiFr

ReqStep == SemStep \/ EuAiStep

SpecReq == InitReq /\ [][ReqStep]_vars

\* some pattern of some of the four categories of the language is found
SomePatternMatches(text, l) ==
    \E c \in {"obligation", "prohibition", "permission", "definition"} :
        \E k \in 1..Len(REQ_PATTERNS(l)[c]) : Matches(REQ_PATTERNS(l)[c][k], text)

\* C32: for every text and language is_requirement_text is true exactly when
\* classify_requirement_type is not "other", which is exactly when a pattern of
\* some category matches; and every provision record has
\* is_requirement = (requirement_type # "other").
C32_RequirementIffClassified ==
    /\ (component = "sem" /\ sem.pc \in {"classified", "done"}) =>
          /\ sem.is_requirement = (sem.requirement_type # "other")
          /\ sem.is_requirement = SomePatternMatches(sem.text, sem.lang)
    /\ component = "stack" =>
          \A i \in 1..Len(provisions) :
              provisions[i].is_requirement = (provisions[i].requirement_type # "other")

\* a text classified as a permission: a requirement with no obligation
\* pattern in it
C32_Witness ==
    /\ component = "sem"
    /\ sem.pc = "classified"
    /\ sem.is_requirement
    /\ sem.requirement_type = "permission"

\* C33 as stated: LEVEL_ORDER gives the nine structural levels distinct ranks,
\* so of two different levels one has the strictly lower rank.
C33_DistinctRanks ==
    (component = "rank" /\ call.pc = "returned" /\ call.a # call.b) =>
        (call.result.a < call.result.b \/ call.result.b < call.result.a)

\* C33: every one of the nine structural levels has a rank, and two different
\* levels have different ranks except title and annex, which share rank 0;
\* for every other pair one rank is strictly lower than the other.
C33_RanksDistinctButAnnex ==
    (component = "rank" /\ call.pc = "returned" /\ call.a # call.b) =>
        /\ call.result.a \in 0..7
        /\ call.result.b \in 0..7
        /\ (call.result.a = call.result.b) <=> ({call.a, call.b} = {"title", "annex"})
        /\ {call.a, call.b} = {"title", "annex"} => call.result.a = 0

\* the ranks of title and annex have been looked up and are equal
C33_Witness ==
    /\ component = "rank"
    /\ call.pc = "returned"
    /\ call.a = "title"
    /\ call.b = "annex"
    /\ call.result.a = call.result.b

\* the positions of id in a children list
Occurrences(children, id) == {k \in 1..Len(children) : children[k] = id}

\* the nodes of c created with parent_id pid, in creation order
ChildrenCreated(c, pid) ==
    SelectSeq([i \in 1..Len(c.provisions) |->
                  IF c.provisions[i].parent_id = pid THEN c.provisions[i].id ELSE <<>>],
              LAMBDA id : id # <<>>)

\* every node with a parent is listed exactly once by that parent, the
\* parent lists its children in creation order, and the path of the node is
\* the parent's path followed by the parent's id
ChildrenListedOnce(c) ==
    \A i \in 1..Len(c.provisions) :
        LET node == c.provisions[i]
        IN  node.parent_id # <<>> =>
                \E j \in 1..(i - 1) :
                    LET parent == c.provisions[j]
                    IN  /\ parent.id = node.parent_id
                        /\ Cardinality(Occurrences(parent.children, node.id)) = 1
                        /\ parent.children = ChildrenCreated(c, parent.id)
                        /\ node.path = Append(parent.path, parent.id)

\* C34 as stated: under make_node calls every children list only grows by
\* appending, every node with a parent occurs exactly once in its parent's
\* children list, in creation order, and its path is the parent's path
\* followed by the parent's id.
C34_ChildrenAppendOnly ==
    [][component = "ctx" =>
          /\ \A i \in 1..Len(ctx.provisions) :
                 /\ Len(ctx'.provisions[i].children) >= Len(ctx.provisions[i].children)
                 /\ SubSeq(ctx'.provisions[i].children, 1, Len(ctx.provisions[i].children))
                        = ctx.provisions[i].children
          /\ ChildrenListedOnce(ctx')]_vars

\* C35: after every processed block the stack of parse_eu_ai_act and
\* parse_mdr is the ancestor chain of its top node: the bottom entry has no
\* parent, every other entry's parent_id is the id of the entry directly
\* below it, and the ranks strictly increase from bottom to top.
C35_StackIsAncestorChain ==
    component = "stack" =>
        /\ stack # <<>> => provisions[stack[1]].parent_id = <<>>
        /\ \A k \in 2..Len(stack) :
               /\ provisions[stack[k]].parent_id = provisions[stack[k - 1]].id
               /\ Rank(provisions[stack[k - 1]].level) < Rank(provisions[stack[k]].level)

\* a stack of three open nodes
C35_Witness ==
    /\ component = "stack"
    /\ Len(stack) = 3
    /\ provisions[stack[3]].parent_id = provisions[stack[2]].id

\* the earlier nodes whose rank is strictly lower than the rank of level
LowerRanked(provs, level) == {i \in 1..Len(provs) : Rank(provs[i].level) < Rank(level)}

\* the largest element of a non-empty set of indices
Latest(S) == CHOOSE i \in S : \A j \in S : j <= i

\* C36: the parent of a new node is the most recently emitted earlier node
\* whose rank is strictly lower than the new node's rank, and null when there
\* is none; in parse_eu_ai_act, when that node is a recital, the new node
\* gets the recital's own parent.
C36_ParentIsLatestLowerRank ==
    [][(component = "stack" /\ Len(provisions') = Len(provisions) + 1) =>
          LET new == provisions'[Len(provisions')]
              lower == LowerRanked(provisions, new.level)
          IN  IF lower = {} THEN new.parent_id = <<>>
              ELSE IF parser = "eu_ai" /\ provisions[Latest(lower)].level = "recital"
                   THEN new.parent_id = provisions[Latest(lower)].parent_id
                   ELSE new.parent_id = provisions[Latest(lower)].id]_vars

\* a node whose parent is neither the node emitted just before it nor the
\* bottom of the stack: open nodes were popped to find it
C36_Witness ==
    /\ component = "stack"
    /\ Len(provisions) = 4
    /\ Len(stack) = 3
    /\ provisions[4].parent_id = provisions[2].id
    /\ provisions[4].parent_id # provisions[3].id
    /\ provisions[4].parent_id # provisions[1].id

\* C37: every annex provision emitted by parse_eu_ai_act or parse_mdr has
\* parent_id null, and right after it is pushed the stack holds that annex
\* alone.
C37_AnnexEmptiesStack ==
    [][component = "stack" =>
          /\ \A i \in 1..Len(provisions') :
                 provisions'[i].level = "annex" => provisions'[i].parent_id = <<>>
          /\ (Len(provisions') = Len(provisions) + 1
              /\ provisions'[Len(provisions')].level = "annex") =>
                 stack' = <<Len(provisions')>>]_vars

\* an annex emitted while three nodes were open is alone on the stack
C37_Witness ==
    /\ component = "stack"
    /\ Len(provisions) = 4
    /\ provisions[4].level = "annex"
    /\ provisions[3].parent_id = provisions[2].id
    /\ provisions[2].parent_id = provisions[1].id
    /\ stack = <<4>>

\* C38 as stated: on the same input, a readable HTML file, the package's
\* parse_document and the dispatcher's parse_document give the registered
\* parser the same arguments and write the same provisions and relations into
\* parsed.json.
C38_ParseDocumentsEquivalent ==
    (component = "disp" /\ call.readable /\ call.package # <<>> /\ call.dispatcher # <<>>) =>
        /\ call.package[1].parser_args = call.dispatcher[1].parser_args
        /\ call.package[1].written = call.dispatcher[1].written

\* an effect of the call so far
PipeDone(effect) == \E k \in 1..Len(pipe.effects) : pipe.effects[k] = effect

\* C39: in run, scrape_document is invoked only when no HTML file was found
\* in the raw directory, parse_document only once an HTML file is available
\* and after any scraping, a scraping failure returns None without
\* parse_document being invoked, a parsing failure returns None, and
\* otherwise run returns the path parse_document returned.
C39_RunOrder ==
    (component = "pipe" /\ pipe.entry = "run") =>
        /\ PipeDone("scrape") => pipe.html_file # "existing.html"
        /\ PipeDone("parse_document") =>
               /\ pipe.html_file \in {"existing.html", "scraped.html"}
               /\ \A j, k \in 1..Len(pipe.effects) :
                      (pipe.effects[j] = "scrape" /\ pipe.effects[k] = "parse_document") => j < k
        /\ (pipe.pc = "returned" /\ PipeDone("scrape") /\ pipe.html_file = None) =>
               (pipe.result = None /\ ~PipeDone("parse_document"))
        /\ (pipe.pc = "returned" /\ PipeDone("parse_document")) => pipe.result = pipe.json_file

\* run has scraped the file, called parse_document, which failed, and
\* returned None
C39_Witness ==
    /\ component = "pipe"
    /\ pipe.entry = "run"
    /\ pipe.pc = "returned"
    /\ pipe.html_file = "scraped.html"
    /\ PipeDone("scrape")
    /\ PipeDone("parse_document")
    /\ pipe.result = None

====
